---- MODULE Spec2Model ----
(***************************************************************************)
(* ModelExecutor of playwright-state-model: the serialized dispatch of     *)
(* events to an XState machine and to the Page Objects bound to its        *)
(* states, the root-to-leaf validation of the active chain, dispose, the    *)
(* state getters, expectState, gotoState, syncStateFromPage and the retry  *)
(* loop of navigateAndValidate.                                            *)
(*                                                                         *)
(* A dotted state key such as 'docs.overview' is the sequence of its       *)
(* segments, <<"docs", "overview">>.  A StateValue is the record           *)
(* [k |-> s] for the string s and [k |-> p, c |-> v] for the object        *)
(* {p: v}.                                                                 *)
(***************************************************************************)
EXTENDS Integers, Sequences, FiniteSets, TLC

\* Number of dispatch() calls issued on the executor in one run.
MaxCalls == 3
\* Number of direct validateCurrentState() calls issued in one run, and of
\* dispatch() calls issued next to them.
MaxValidates == 1
MaxCallsValidate == 1
\* Number of public operations issued in one run of the whole API.
MaxOps == 1
\* Number of navigateAndValidate() calls in one run of the retry loop.
MaxNavs == 1
\* Number of dispatches, validations and getter reads in one run of the
\* use-after-dispose specification.
MaxDisposeOps == 3
\* Number of syncStateFromPage() calls in one run of the probe, and of
\* gotoState() calls in one run of the probe or of the retry loop.
MaxSyncs == 1
MaxGotos == 1
\* Number of dispatch() calls issued next to syncStateFromPage().
MaxCallsSync == 1
\* Largest `retries` passed to navigateAndValidate.
MaxRetries == 2
\* Deepest nesting of the StateValues given to resolveStatePaths on its own.
MaxDepth == 4
\* Number of reads of the state getters in one run, and of dispatch() calls
\* issued next to them.
MaxReads == 1
MaxCallsRead == 1
\* Number of expectState() calls in one run, and of dispatch() calls issued
\* next to them.
MaxExpects == 1
MaxCallsExpect == 1
\* Number of dispatch() calls that pass a payload in one run.
MaxCallsPayload == 2
\* Number of dispatch() calls in a run checked for progress.
MaxCallsLive == 2
\* Number of navigateAndValidate() calls issued next to one another.
MaxNavsConcurrent == 2

VARIABLES
    isXStateV5,     \* runtime shape: TRUE = Snapshot/Actor, FALSE = Service
    factory,        \* which registry the StateFactory holds
    value,          \* the machine's current StateValue
    stopCount,      \* number of stop() calls made on the runtime
    disposed,       \* ModelExecutor.disposed
    url,            \* the page's current location
    dispatchQueue,  \* id of the call whose promise is the queue's tail (0: initial)
    calls,          \* dispatch() calls, in submission order
    vcalls,         \* direct validateCurrentState() calls
    handlerLog,     \* event handlers invoked, in invocation order
    options,        \* ModelExecutor.options
    navs,           \* navigateAndValidate() calls
    ecalls,         \* expectState() calls
    gcalls,         \* gotoState() calls
    scalls,         \* syncStateFromPage() calls
    reads,          \* reads of currentStateValue and currentStateString
    screenshots,    \* page.screenshot() calls, in call order
    applied,        \* the last application of a function called on its own
    constructed     \* number of Page Objects getActiveStateChain has constructed

\* The state of the operations other than dispatch, validateCurrentState and
\* dispose.
apiVars == <<options, navs, ecalls, gcalls, scalls, reads, screenshots,
            applied>>

vars == <<isXStateV5, factory, value, stopCount, disposed, url, dispatchQueue,
          calls, vcalls, handlerLog, options, navs, ecalls, gcalls, scalls,
          reads, screenshots, applied, constructed>>

----------------------------------------------------------------------------
(* StateValues and state keys *)

Str(s) == [k |-> s]
Obj(p, v) == [k |-> p, c |-> v]
IsString(v) == DOMAIN v = {"k"}

\* A resolution that yields the root key alone.
resolveStatePathsRootOnly(v) == << <<v.k>> >>

RECURSIVE resolveStatePaths(_)
resolveStatePaths(v) ==
    IF IsString(v) THEN << <<v.k>> >>
    ELSE LET parentKey == v.k
             childPaths == resolveStatePaths(v.c)
         IN  << <<parentKey>> >> \o
             [n \in 1..Len(childPaths) |-> <<parentKey>> \o childPaths[n]]

\* flattenStateValue: the dot-separated string of a StateValue, as the
\* sequence of its segments.
RECURSIVE flattenStateValue(_)
flattenStateValue(v) ==
    IF IsString(v) THEN <<v.k>>
    ELSE <<v.k>> \o flattenStateValue(v.c)

\* What a getter hands to JavaScript: a string (a dotted key) or an object.
JsString(s) == [isString |-> TRUE, s |-> s]
JsObject(v) == [isString |-> FALSE, v |-> v]

\* A getter that returns the raw value whatever the format.
FormatStateValueRaw(v, format) ==
    IF IsString(v) THEN JsString(<<v.k>>) ELSE JsObject(v)

\* The value the currentStateValue getter returns under a stateValueFormat.
FormatStateValue(v, format) ==
    IF format = "string" THEN JsString(flattenStateValue(v))
    ELSE IF IsString(v) THEN JsString(<<v.k>>)
         ELSE JsObject(v)

\* The value the currentStateString getter returns.
StateString(v, format) ==
    LET r == FormatStateValue(v, format)
    IN  IF r.isString THEN r.s ELSE flattenStateValue(r.v)

----------------------------------------------------------------------------
(* Options *)

NoRetryOptions == [given |-> FALSE]
RetryOptions(r, patterns) ==
    [given |-> TRUE, retries |-> r, retryableErrors |-> patterns]

\* The options of an executor created without any.
DefaultOptions ==
    [screenshotOnFailure |-> FALSE, defaultRetryOptions |-> NoRetryOptions,
     stateValueFormat |-> "auto"]

----------------------------------------------------------------------------
(* The example machine playwrightDevMachine *)

Events == {"NAVIGATE_TO_DOCS", "NAVIGATE_TO_API", "NAVIGATE_TO_HOME",
           "NAVIGATE_TO_GETTING_STARTED", "NAVIGATE_TO_OVERVIEW",
           "NON_EXISTENT_EVENT"}

\* Event payloads: undefined (no payload given), null (the initial
\* lastEventPayload of a Page Object), and objects, of which the model keeps
\* the fields section and type ("": the object has no such field).
Undefined == [t |-> "undefined"]
Null == [t |-> "null"]
PayloadObject(type, section) == [t |-> "object", type |-> type, section |-> section]

\* The payloads dispatch is called with: none, { section: 'getting-started' },
\* and an object that has a type field of its own.
Payloads ==
    {Undefined, PayloadObject("", "getting-started"),
     PayloadObject("NAVIGATE_TO_API", "")}

\* The type of the object { type: event, ...payload }: a type field of the
\* payload, spread after it, replaces the event.
SpreadType(e, payload) ==
    IF payload.t = "object" /\ payload.type # "" THEN payload.type ELSE e

\* The type of the event the runtime is handed: actor.send({ type: event,
\* ...payload }) under the Actor shape, service.send(event, payload) under the
\* Service shape.
SentType(v5, e, payload) == IF v5 THEN SpreadType(e, payload) ELSE e

Home == Str("home")
Api == Str("api")
DocsOverview == Obj("docs", Str("overview"))
DocsGettingStarted == Obj("docs", Str("gettingStarted"))

MachineInitial == Home

\* The `on` table of one state node: event -> target StateValue.
MachineOn(node) ==
    CASE node = <<"home">> ->
           [e \in {"NAVIGATE_TO_DOCS", "NAVIGATE_TO_API"} |->
              IF e = "NAVIGATE_TO_DOCS" THEN DocsOverview ELSE Api]
      [] node = <<"docs", "overview">> ->
           [e \in {"NAVIGATE_TO_GETTING_STARTED", "NAVIGATE_TO_API", "NAVIGATE_TO_HOME"} |->
              IF e = "NAVIGATE_TO_GETTING_STARTED" THEN DocsGettingStarted
              ELSE IF e = "NAVIGATE_TO_API" THEN Api ELSE Home]
      [] node = <<"docs", "gettingStarted">> ->
           [e \in {"NAVIGATE_TO_OVERVIEW", "NAVIGATE_TO_HOME"} |->
              IF e = "NAVIGATE_TO_OVERVIEW" THEN DocsOverview ELSE Home]
      [] node = <<"docs">> ->
           [e \in {"NAVIGATE_TO_API", "NAVIGATE_TO_HOME"} |->
              IF e = "NAVIGATE_TO_API" THEN Api ELSE Home]
      [] node = <<"api">> ->
           [e \in {"NAVIGATE_TO_DOCS", "NAVIGATE_TO_HOME"} |->
              IF e = "NAVIGATE_TO_DOCS" THEN DocsOverview ELSE Home]
      [] OTHER -> [e \in {} |-> Home]

\* The machine's transition function: the deepest active node that defines
\* the event decides; an event no active node defines leaves the value alone.
MachineTransition(v, e) ==
    LET nodes == resolveStatePaths(v)
        having == {n \in 1..Len(nodes) : e \in DOMAIN MachineOn(nodes[n])}
    IN  IF having = {} THEN v
        ELSE LET n == CHOOSE m \in having : \A o \in having : o <= m
             IN  MachineOn(nodes[n])[e]

\* service.nextState(event).changed
NextStateChanged(v, e) == MachineTransition(v, e) # v

\* actor.send / service.send: a stopped runtime drops the event.
Send(v, e, stops) == IF stops > 0 THEN v ELSE MachineTransition(v, e)

----------------------------------------------------------------------------
(* Page Objects and registries *)

\* Where the page is: the site's home, /docs/intro, /docs/getting-started,
\* /docs/api.
Locations == {"home", "docs", "gettingStarted", "api"}

\* The event-handler methods a Page Object class defines.
ClassMethods(class) ==
    CASE class = "HomePage" -> {"NAVIGATE_TO_DOCS", "NAVIGATE_TO_API"}
      [] class = "DocsOverviewPage" ->
           {"NAVIGATE_TO_GETTING_STARTED", "NAVIGATE_TO_API", "NAVIGATE_TO_HOME"}
      [] class = "GettingStartedPage" -> {"NAVIGATE_TO_OVERVIEW", "NAVIGATE_TO_HOME"}
      [] class = "ApiPage" -> {"NAVIGATE_TO_DOCS", "NAVIGATE_TO_HOME"}
      [] OTHER -> {}

\* The locations at which a class's validateState() passes.
ClassValidAt(class) ==
    CASE class = "HomePage" -> {"home"}
      [] class = "DocsOverviewPage" -> {"docs", "gettingStarted", "api"}
      [] class = "GettingStartedPage" -> {"gettingStarted"}
      [] class = "ApiPage" -> {"api"}
      [] class = "HomePageWithoutGoto" -> {"home"}
      [] OTHER -> {}

\* The page a handler's link leads to.
LinkTarget(e) ==
    CASE e = "NAVIGATE_TO_DOCS" -> "docs"
      [] e = "NAVIGATE_TO_API" -> "api"
      [] e = "NAVIGATE_TO_HOME" -> "home"
      [] e = "NAVIGATE_TO_GETTING_STARTED" -> "gettingStarted"
      [] e = "NAVIGATE_TO_OVERVIEW" -> "docs"
      [] OTHER -> "home"

\* Outcomes of one handler call: it throws, its click navigates, or the click
\* goes through but the navigation does not happen (aborted request).
HandlerOutcomes == {"throws", "navigates", "stays"}

\* Registry of createStateFactory: registration order kept.
ExampleRegistry ==
    << [key |-> <<"home">>, class |-> "HomePage"],
       [key |-> <<"docs">>, class |-> "DocsOverviewPage"],
       [key |-> <<"docs", "overview">>, class |-> "DocsOverviewPage"],
       [key |-> <<"docs", "gettingStarted">>, class |-> "GettingStartedPage"],
       [key |-> <<"docs", "api">>, class |-> "ApiPage"],
       [key |-> <<"api">>, class |-> "ApiPage"] >>

\* Registry holding only a home Page Object without event handlers.
HomeOnlyRegistry == << [key |-> <<"home">>, class |-> "HomePageWithoutGoto"] >>

Registries == {ExampleRegistry, HomeOnlyRegistry}

\* Registries that leave out one key of the path docs.overview: the leaf, or
\* the parent.
NoLeafRegistry ==
    << [key |-> <<"home">>, class |-> "HomePage"],
       [key |-> <<"docs">>, class |-> "DocsOverviewPage"] >>

NoParentRegistry ==
    << [key |-> <<"home">>, class |-> "HomePage"],
       [key |-> <<"docs", "overview">>, class |-> "DocsOverviewPage"] >>

PartialRegistries == {ExampleRegistry, NoLeafRegistry, NoParentRegistry}

\* definitions.get(id): the class registered for the key, "" when none.
FactoryClass(reg, key) ==
    IF \E n \in 1..Len(reg) : reg[n].key = key
    THEN reg[CHOOSE n \in 1..Len(reg) : reg[n].key = key].class
    ELSE ""

----------------------------------------------------------------------------
(* Errors and call records *)

NoError == [kind |-> "none", origin |-> 0, key |-> <<>>]
Err(kind, origin, key) == [kind |-> kind, origin |-> origin, key |-> key]

\* The error a Page Object's validateState() threw, and no error (null).
ValidationFailure(key) == [kind |-> "validateState", key |-> key]
NullError == [kind |-> "null"]

\* new StateValidationError(details)
StateValidationError(who, details) ==
    [kind |-> "Validation", origin |-> who, key |-> details.expectedState,
     details |-> details]

Settled(pc) == pc \in {"resolved", "rejected"}

Resolved(c, v) == [c EXCEPT !.pc = "resolved", !.endValue = v]
Rejected(c, e, v) == [c EXCEPT !.pc = "rejected", !.err = e, !.endValue = v]

\* A factory that hands out a plain BaseState for a key it does not know.
StateFactoryGetDefault(reg, id, who) ==
    [ok |-> TRUE,
     class |-> IF FactoryClass(reg, id) = "" THEN "BaseState"
               ELSE FactoryClass(reg, id)]

\* StateFactory.get(id, context): an object of the class registered for id,
\* or the error thrown when there is none.
StateFactoryGet(reg, id, who) ==
    IF FactoryClass(reg, id) = ""
    THEN [ok |-> FALSE, err |-> Err("Unregistered", who, id)]
    ELSE [ok |-> TRUE, class |-> FactoryClass(reg, id)]

\* The machine's context: { currentPage: "home" }, which no transition assigns.
machineContext == [currentPage |-> "home"]

\* A factory that keeps one object per key and hands it out again.
NewStateClassCached(class, id, context, heap) ==
    [ref |-> Len(id), class |-> class, key |-> id, context |-> context,
     lastEventPayload |-> Null]

\* `new StateClass(this.page, context)`: an object that did not exist before,
\* heap being the number of objects constructed so far.
NewStateClass(class, id, context, heap) ==
    [ref |-> heap + 1, class |-> class, key |-> id, context |-> context,
     lastEventPayload |-> Null]

\* getActiveStateChain: the keys of the chain and the objects constructed for
\* them, or the error it throws; made is the number of objects constructed,
\* heap the number constructed before the call.
getActiveStateChain(v, reg, isDisposed, who, heap) ==
    IF isDisposed
    THEN [ok |-> FALSE, err |-> Err("Disposed", who, <<>>), made |-> 0]
    ELSE LET stateKeys == resolveStatePaths(v)
             missing == {n \in 1..Len(stateKeys) :
                            ~StateFactoryGet(reg, stateKeys[n], who).ok}
         IN  IF missing = {}
             THEN [ok |-> TRUE, chain |-> stateKeys,
                   objects |->
                     [n \in 1..Len(stateKeys) |->
                        NewStateClass(StateFactoryGet(reg, stateKeys[n], who).class,
                                      stateKeys[n], machineContext, heap + n - 1)],
                   made |-> Len(stateKeys)]
             ELSE LET first == CHOOSE n \in missing : \A m \in missing : n <= m
                  IN  [ok |-> FALSE,
                       err |-> StateFactoryGet(reg, stateKeys[first], who).err,
                       made |-> first - 1]

\* The objects a call has constructed in the running step are counted in its
\* record until the step ends.
Constructs(c, r) == [c EXCEPT !.made = @ + r.made]
EndOfStep(c) == [c EXCEPT !.made = 0]

\* The synchronous start of validateCurrentState on machine value v.
ValidationStart(c, v, reg, isDisposed, who) ==
    IF isDisposed THEN Rejected(c, Err("Disposed", who, <<>>), v)
    ELSE LET r == getActiveStateChain(v, reg, isDisposed, who, constructed + c.made)
         IN  IF ~r.ok THEN Rejected(Constructs(c, r), r.err, v)
             ELSE IF Len(r.chain) = 0
                  THEN Rejected(c,
                         StateValidationError(who,
                           [expectedState |-> <<>>,
                            currentState |-> StateString(v, options.stateValueFormat),
                            currentUrl |-> url,
                            validationChain |-> <<>>,
                            originalError |-> [kind |-> "NoPageObjects"]]), v)
                  ELSE [Constructs(c, r) EXCEPT !.pc = "validating",
                                                !.vpaths = resolveStatePaths(v),
                                                !.vobjs = r.objects,
                                                !.vidx = 1]

\* A loop that does not stop at a failing level: it goes on to the next one.
ValidationStepNoStop(c, passes, v, who) ==
    IF c.vidx = Len(c.vpaths)
    THEN IF passes THEN Resolved(c, v)
         ELSE Rejected(c, Err("Validation", who, c.vpaths[c.vidx]), v)
    ELSE [c EXCEPT !.vidx = c.vidx + 1]

\* An error that carries the whole path of the state under validation.
ValidationErrorDetailsFullPath(c, v) ==
    [expectedState |-> c.vpaths[c.vidx],
     currentState |-> StateString(v, options.stateValueFormat),
     currentUrl |-> url,
     validationChain |-> c.vpaths,
     originalError |-> ValidationFailure(c.vpaths[c.vidx])]

\* The details of the StateValidationError raised when the level c.vidx of
\* the chain fails, the machine's value being v.
ValidationErrorDetails(c, v) ==
    [expectedState |-> c.vpaths[c.vidx],
     currentState |-> StateString(v, options.stateValueFormat),
     currentUrl |-> url,
     validationChain |-> SubSeq(c.vpaths, 1, c.vidx),
     originalError |-> ValidationFailure(c.vpaths[c.vidx])]

\* One validateState() of the loop settles: the next level, or the end.
ValidationStep(c, passes, v, who) ==
    IF ~passes
    THEN Rejected(c, StateValidationError(who, ValidationErrorDetails(c, v)), v)
    ELSE IF c.vidx = Len(c.vpaths) THEN Resolved(c, v)
         ELSE [c EXCEPT !.vidx = c.vidx + 1]

\* The record of the validateState() call that has just settled.
Checked(c, passes) ==
    Append(c.vlog, [key |-> c.vpaths[c.vidx], level |-> c.vidx, ok |-> passes])

\* A top-down search: the shallowest level that has the method.
FindHandlerRootFirst(chain, reg, e) ==
    LET having == {n \in 1..Len(chain) : e \in ClassMethods(FactoryClass(reg, chain[n]))}
    IN  IF having = {} THEN 0
        ELSE CHOOSE n \in having : \A m \in having : n <= m

\* The bottom-up handler search: the deepest level of the chain whose object
\* has a method named after the event, 0 when none has.
FindHandler(chain, reg, e) ==
    LET having == {n \in 1..Len(chain) : e \in ClassMethods(FactoryClass(reg, chain[n]))}
    IN  IF having = {} THEN 0
        ELSE CHOOSE n \in having : \A m \in having : m <= n

\* `await previousDispatch`: throws the predecessor's rejection.
AwaitPrevious(prevPc, prevErr) ==
    IF prevPc = "rejected" THEN [throws |-> TRUE, err |-> prevErr]
    ELSE [throws |-> FALSE, err |-> NoError]

----------------------------------------------------------------------------
(* dispatch *)

\* An injection that reaches the leaf object alone.
SetEventPayloadLeafOnly(objs, payload) ==
    [n \in 1..Len(objs) |->
        IF n = Len(objs) THEN [objs[n] EXCEPT !.lastEventPayload = payload]
        ELSE objs[n]]

\* `for (const state of chain) state.setEventPayload(payload)`
SetEventPayload(objs, payload) ==
    [n \in 1..Len(objs) |-> [objs[n] EXCEPT !.lastEventPayload = payload]]

NewCall(e, prevId, v) ==
    [event |-> e, payload |-> Undefined, sentType |-> "", prev |-> prevId, pc |-> "awaitPrev", err |-> NoError,
     queued |-> TRUE, started |-> FALSE, before |-> v, startValue |-> v,
     endValue |-> v, injected |-> <<>>, hlevel |-> 0, sent |-> FALSE,
     vpaths |-> <<>>, vidx |-> 0, vlog |-> <<>>, nav |-> 0,
     objs |-> <<>>, vobjs |-> <<>>, made |-> 0]

\* A dispatch that commits and resolves without the post-commit validation.
AfterHandlerNoValidation(v5, c, who, handled) ==
    LET type == SentType(v5, c.event, c.payload)
        after == Send(value, type, stopCount)
        c1 == [c EXCEPT !.sent = TRUE, !.sentType = type]
    IN  IF v5 /\ after # c.before /\ ~handled
        THEN [call |-> Rejected(c1, Err("Unhandled", who, <<>>), after),
              value |-> after]
        ELSE [call |-> Resolved(c1, after), value |-> after]

\* A dispatch that validates without having sent the event.
AfterHandlerNoCommit(v5, c, who, handled) ==
    [call |-> ValidationStart(c, value, factory, disposed, who), value |-> value]

\* executeDispatch from the commit on: send, then (Actor) the changed test and
\* the unhandled test, then the post-commit validation.
\* Result: the call's record and the machine's value.
AfterHandler(v5, c, who, handled) ==
    LET type == SentType(v5, c.event, c.payload)
        after == Send(value, type, stopCount)
        c1 == [c EXCEPT !.sent = TRUE, !.sentType = type]
    IN  IF v5
        THEN IF after = c.before THEN [call |-> Resolved(c1, after), value |-> after]
             ELSE IF ~handled
                  THEN [call |-> Rejected(c1, Err("Unhandled", who, <<>>), after),
                        value |-> after]
                  ELSE [call |-> ValidationStart(c1, after, factory, disposed, who),
                        value |-> after]
        ELSE [call |-> ValidationStart(c1, after, factory, disposed, who),
              value |-> after]

\* executeDispatch up to the await of the handler: chain resolution, payload
\* injection and handler search.  Result: the call's record, the machine's
\* value, and the level of the handler invoked (0: none).
ChainAndHandler(v5, c, who) ==
    LET r == getActiveStateChain(value, factory, disposed, who, constructed + c.made)
    IN  IF ~r.ok
        THEN [call |-> Rejected(Constructs(c, r), r.err, value), value |-> value,
              level |-> 0]
        ELSE LET c1 == [Constructs(c, r) EXCEPT
                           !.injected = r.chain,
                           !.objs = SetEventPayload(r.objects, c.payload)]
                 h == FindHandler(r.chain, factory, c.event)
             IN  IF h > 0
                 THEN [call |-> [c1 EXCEPT !.pc = "inHandler", !.hlevel = h],
                       value |-> value, level |-> h]
                 ELSE IF v5
                      THEN AfterHandler(v5, c1, who, FALSE) @@ [level |-> 0]
                      ELSE [call |-> Rejected(c1, Err("Unhandled", who, <<>>), value),
                            value |-> value, level |-> 0]

\* The start of executeDispatch under the runtime shape v5 (TRUE: Actor,
\* FALSE: Service).
ExecuteStart(v5, c, who) ==
    LET c0 == [c EXCEPT !.started = TRUE, !.before = value]
    IN  IF v5 THEN ChainAndHandler(v5, c0, who)
        ELSE IF ~NextStateChanged(value, c.event)
             THEN [call |-> Resolved(c0, value), value |-> value, level |-> 0]
             ELSE ChainAndHandler(v5, c0, who)

\* A call that leaves the queue's tail as it found it.
NextQueueTailUnchanged(tail, who) == tail

\* `this.dispatchQueue = new Promise(...)`: the call's own promise is the new
\* tail of the queue.
NextQueueTail(tail, who) == who

\* dispatch(event): the synchronous part, up to `await previousDispatch`.
\* `by` is the navigateAndValidate call that makes the call, 0 for a caller
\* outside the executor.
DispatchCallWith(e, payload, by) ==
    LET who == Len(calls) + 1
    IN  IF disposed
        THEN /\ calls' = Append(calls,
                   [NewCall(e, 0, value) EXCEPT
                       !.pc = "rejected", !.queued = FALSE, !.nav = by,
                       !.payload = payload,
                       !.err = Err("Disposed", who, <<>>)])
             /\ UNCHANGED dispatchQueue
        ELSE /\ calls' = Append(calls, [NewCall(e, dispatchQueue, value) EXCEPT
                                           !.nav = by, !.payload = payload])
             /\ dispatchQueue' = NextQueueTail(dispatchQueue, who)

\* dispatch(event) without a payload.
DispatchCall(e, by) == DispatchCallWith(e, Undefined, by)

\* The dispatch() calls made from outside the executor.
DirectCalls == {i \in 1..Len(calls) : calls[i].nav = 0}

\* dispatch(event) called from outside the executor.
Dispatch(e, limit) ==
    /\ Cardinality(DirectCalls) < limit
    /\ DispatchCall(e, 0)
    /\ UNCHANGED <<constructed, isXStateV5, factory, value, stopCount, disposed, url, vcalls,
                   handlerLog>>
    /\ UNCHANGED apiVars

\* dispatch(event, payload) called from outside the executor.
DispatchPayload(e, payload, limit) ==
    /\ Cardinality(DirectCalls) < limit
    /\ DispatchCallWith(e, payload, 0)
    /\ UNCHANGED <<constructed, isXStateV5, factory, value, stopCount, disposed, url,
                   vcalls, handlerLog>>
    /\ UNCHANGED apiVars

\* A promise-chain bug: the call does not wait for its predecessor.
PreviousSettledNoWait(c) == TRUE

\* A chain that resumes a call only when its predecessor has resolved.
PreviousResolved(c) ==
    IF c.prev = 0 THEN TRUE ELSE calls[c.prev].pc = "resolved"

\* `await previousDispatch` resumes only once the captured promise has settled.
PreviousSettled(c) ==
    IF c.prev = 0 THEN TRUE ELSE Settled(calls[c.prev].pc)

\* The predecessor's promise has settled: the call resumes after
\* `await previousDispatch` and runs executeDispatch up to its first await.
Execute(i) ==
    /\ i \in 1..Len(calls)
    /\ calls[i].pc = "awaitPrev"
    /\ PreviousSettled(calls[i])
    /\ LET c == [calls[i] EXCEPT !.startValue = value]
           a == IF c.prev = 0 THEN AwaitPrevious("resolved", NoError)
                ELSE AwaitPrevious(calls[c.prev].pc, calls[c.prev].err)
       IN  IF a.throws
           THEN /\ calls' = [calls EXCEPT ![i] = Rejected(c, a.err, value)]
                /\ UNCHANGED <<value, handlerLog, constructed>>
           ELSE LET r == ExecuteStart(isXStateV5, c, i)
                IN  /\ calls' = [calls EXCEPT ![i] = EndOfStep(r.call)]
                    /\ constructed' = constructed + r.call.made
                    /\ value' = r.value
                    /\ handlerLog' =
                         IF r.level > 0
                         THEN Append(handlerLog,
                                [call |-> i, event |-> c.event, level |-> r.level,
                                 argument |-> c.payload,
                                 payload |-> r.call.objs[r.level].lastEventPayload,
                                 key |-> r.call.injected[r.level],
                                 chain |-> r.call.injected])
                         ELSE handlerLog
    /\ UNCHANGED <<isXStateV5, factory, stopCount, disposed, url, dispatchQueue,
                   vcalls>>
    /\ UNCHANGED apiVars

\* A dispatch that sends the event although its handler threw.
HandlerThrowsAfterSend(v5, c, who) ==
    LET type == SentType(v5, c.event, c.payload)
        after == Send(value, type, stopCount)
    IN  [call |-> Rejected([c EXCEPT !.sent = TRUE, !.sentType = type],
                           Err("HandlerThrew", who, <<>>), after),
         value |-> after]

\* The awaited handler throws: the error leaves executeDispatch at the await.
HandlerThrows(v5, c, who) ==
    [call |-> Rejected(c, Err("HandlerThrew", who, <<>>), value), value |-> value]

\* The awaited handler settles; on success the rest of executeDispatch runs up
\* to the first validateState().
HandlerSettles(i, outcome) ==
    /\ i \in 1..Len(calls)
    /\ calls[i].pc = "inHandler"
    /\ LET c == calls[i]
       IN  IF outcome = "throws"
           THEN LET r == HandlerThrows(isXStateV5, c, i)
                IN  /\ calls' = [calls EXCEPT ![i] = r.call]
                    /\ value' = r.value
                    /\ UNCHANGED <<url, constructed>>
           ELSE LET r == AfterHandler(isXStateV5, c, i, TRUE)
                IN  /\ url' = IF outcome = "navigates" THEN LinkTarget(c.event) ELSE url
                    /\ calls' = [calls EXCEPT ![i] = EndOfStep(r.call)]
                    /\ constructed' = constructed + r.call.made
                    /\ value' = r.value
    /\ UNCHANGED <<isXStateV5, factory, stopCount, disposed, dispatchQueue, vcalls,
                   handlerLog>>
    /\ UNCHANGED apiVars

\* The catch block of the validation loop reads currentStateString, which
\* throws once the executor is disposed.
ValidationOutcome(c, passes, who) ==
    IF ~passes /\ disposed THEN Rejected(c, Err("Disposed", who, <<>>), value)
    ELSE ValidationStep(c, passes, value, who)

ValidatePasses(key) == url \in ClassValidAt(FactoryClass(factory, key))

\* One validateState() of a dispatch's post-commit validation settles.
ValidateSettles(i) ==
    /\ i \in 1..Len(calls)
    /\ calls[i].pc = "validating"
    /\ LET c == calls[i]
           passes == ValidatePasses(c.vpaths[c.vidx])
       IN  calls' = [calls EXCEPT
                       ![i] = [ValidationOutcome(c, passes, i) EXCEPT
                                  !.vlog = Checked(c, passes)]]
    /\ UNCHANGED <<constructed, isXStateV5, factory, value, stopCount, disposed, url,
                   dispatchQueue, vcalls, handlerLog>>
    /\ UNCHANGED apiVars

----------------------------------------------------------------------------
(* validateCurrentState called directly *)

NewValidate(v) ==
    [pc |-> "start", err |-> NoError, endValue |-> v, vpaths |-> <<>>, vidx |-> 0,
     vlog |-> <<>>, vobjs |-> <<>>, made |-> 0]

\* A validateCurrentState that waits for the tail of the dispatch queue.
ValidateAwaitsQueue(tail) == tail

\* The dispatch promise validateCurrentState awaits before it resolves the
\* chain: none (0), the method never reads dispatchQueue.
ValidateAwaits(tail) == 0

ValidateCurrentState ==
    /\ Len(vcalls) < MaxValidates
    /\ LET awaited == ValidateAwaits(dispatchQueue)
       IN  IF awaited = 0 THEN TRUE ELSE Settled(calls[awaited].pc)
    /\ LET who == Len(vcalls) + 1
           r == ValidationStart(NewValidate(value), value, factory, disposed, who)
       IN  /\ vcalls' = Append(vcalls, EndOfStep(r))
           /\ constructed' = constructed + r.made
    /\ UNCHANGED <<isXStateV5, factory, value, stopCount, disposed, url,
                   dispatchQueue, calls, handlerLog>>
    /\ UNCHANGED apiVars

DirectValidateSettles(j) ==
    /\ j \in 1..Len(vcalls)
    /\ vcalls[j].pc = "validating"
    /\ LET c == vcalls[j]
           passes == ValidatePasses(c.vpaths[c.vidx])
       IN  vcalls' = [vcalls EXCEPT
                        ![j] = [ValidationOutcome(c, passes, j) EXCEPT
                                   !.vlog = Checked(c, passes)]]
    /\ UNCHANGED <<constructed, isXStateV5, factory, value, stopCount, disposed, url,
                   dispatchQueue, calls, handlerLog>>
    /\ UNCHANGED apiVars

----------------------------------------------------------------------------
(* dispose *)

\* A dispose() that stops the runtime on every call.
StopsAfterDisposeEveryCall(isDisposed, stops) == stops + 1

\* The number of stop() calls made once dispose() has returned.
StopsAfterDispose(isDisposed, stops) ==
    IF isDisposed THEN stops ELSE stops + 1

Dispose ==
    /\ disposed' = TRUE
    /\ stopCount' = StopsAfterDispose(disposed, stopCount)
    /\ UNCHANGED <<constructed, isXStateV5, factory, value, url, dispatchQueue, calls, vcalls,
                   handlerLog>>
    /\ UNCHANGED apiVars

----------------------------------------------------------------------------
(* The public operations next to dispatch, validateCurrentState and dispose *)

coreVars == <<isXStateV5, factory, value, stopCount, disposed, url, dispatchQueue,
              calls, vcalls, handlerLog>>

\* The public operations issued so far, dispose() apart.
OpsIssued ==
    Cardinality(DirectCalls) + Len(vcalls) + Len(navs) + Len(ecalls) +
    Len(gcalls) + Len(scalls) + Len(reads)

----------------------------------------------------------------------------
(* currentStateValue and currentStateString *)

\* The getter's result, or the error it throws.
currentStateValue ==
    IF disposed THEN [ok |-> FALSE, err |-> Err("Disposed", 0, <<>>)]
    ELSE [ok |-> TRUE,
          result |-> FormatStateValue(value, options.stateValueFormat)]

currentStateString ==
    IF ~currentStateValue.ok THEN currentStateValue
    ELSE [ok |-> TRUE,
          result |-> JsString(StateString(value, options.stateValueFormat))]

Getters == {"currentStateValue", "currentStateString"}

\* A read of one of the getters.
Read(getter) ==
    /\ reads' = Append(reads,
          [getter |-> getter, disposedAtCall |-> disposed,
           got |-> IF getter = "currentStateValue" THEN currentStateValue
                   ELSE currentStateString])
    /\ UNCHANGED <<constructed, coreVars, options, applied, navs, ecalls, gcalls, scalls, screenshots>>

----------------------------------------------------------------------------
(* expectState *)

\* The expected states the tests pass: 'home', 'docs.overview', {docs: 'overview'}.
ExpectInputs ==
    {JsString(<<"home">>), JsString(<<"docs", "overview">>), JsObject(DocsOverview)}

ExpectedStateStr(x) == IF x.isString THEN x.s ELSE flattenStateValue(x.v)

NewExpect(x, strict) ==
    [expected |-> ExpectedStateStr(x), strict |-> strict, phase |-> 1,
     disposedAtCall |-> disposed, pc |-> "start", err |-> NoError,
     endValue |-> value, vpaths |-> <<>>, vidx |-> 0, vlog |-> <<>>,
     vobjs |-> <<>>, made |-> 0]

\* The catch block around the first validateCurrentState(): c.err is the error
\* caught.
ExpectCatch(c, who) ==
    IF disposed THEN Rejected(c, Err("Disposed", who, <<>>), value)
    ELSE IF c.err.kind = "Validation"
         THEN Rejected(c,
                StateValidationError(who,
                  [c.err.details EXCEPT !.expectedState = c.expected]), value)
         ELSE Rejected(c,
                StateValidationError(who,
                  [expectedState |-> c.expected,
                   currentState |-> StateString(value, options.stateValueFormat),
                   currentUrl |-> url,
                   validationChain |-> resolveStatePaths(value),
                   originalError |-> c.err]), value)

\* After the first validateCurrentState() has passed: the comparison of the
\* state strings, then the second validation of a strict call.
ExpectCompare(c, who) ==
    IF disposed THEN Rejected(c, Err("Disposed", who, <<>>), value)
    ELSE IF StateString(value, options.stateValueFormat) # c.expected
         THEN Rejected(c,
                StateValidationError(who,
                  [expectedState |-> c.expected,
                   currentState |-> StateString(value, options.stateValueFormat),
                   currentUrl |-> url,
                   validationChain |-> resolveStatePaths(value),
                   originalError |-> NullError]), value)
         ELSE IF c.strict
              THEN ValidationStart([c EXCEPT !.phase = 2], value, factory, disposed, who)
              ELSE Resolved(c, value)

\* expectState resumes with r, the state of its validation run.
ExpectAfterValidation(r, who) ==
    IF r.phase = 1 /\ r.pc = "rejected" THEN ExpectCatch(r, who)
    ELSE IF r.phase = 1 /\ r.pc = "resolved" THEN ExpectCompare(r, who)
         ELSE r

ExpectState(x, strict) ==
    /\ LET who == Len(ecalls) + 1
           r == ValidationStart(NewExpect(x, strict), value, factory, disposed, who)
           after == ExpectAfterValidation(r, who)
       IN  /\ ecalls' = Append(ecalls, EndOfStep(after))
           /\ constructed' = constructed + after.made
    /\ UNCHANGED <<coreVars, options, applied, navs, gcalls, scalls, reads, screenshots>>

\* One validateState() of an expectState call settles.
ExpectValidateSettles(k) ==
    /\ k \in 1..Len(ecalls)
    /\ ecalls[k].pc = "validating"
    /\ LET c == ecalls[k]
           passes == ValidatePasses(c.vpaths[c.vidx])
           r == [ValidationOutcome(c, passes, k) EXCEPT !.vlog = Checked(c, passes)]
           after == ExpectAfterValidation(r, k)
       IN  /\ ecalls' = [ecalls EXCEPT ![k] = EndOfStep(after)]
           /\ constructed' = constructed + after.made
    /\ UNCHANGED <<coreVars, options, applied, navs, gcalls, scalls, reads, screenshots>>

----------------------------------------------------------------------------
(* gotoState *)

GotoInputs == {Home, DocsOverview, Api}

\* Where a class's goto() leads, "" for a class without goto().
ClassGoto(class) ==
    CASE class = "HomePage" -> "home"
      [] class = "ApiPage" -> "api"
      [] OTHER -> ""

\* Outcomes of one goto(): page.goto arrives or throws.
GotoOutcomes == {"navigates", "throws"}

NewGoto(target) ==
    [target |-> target, disposedAtCall |-> disposed, pc |-> "start",
     err |-> NoError, key |-> <<>>, endValue |-> value]

\* A navigation that takes the root key of the target.
rootStateKey(stateKeys) == stateKeys[1]

\* stateKeys[stateKeys.length - 1]
leafStateKey(stateKeys) == stateKeys[Len(stateKeys)]

\* gotoState up to the await of goto().
GotoStart(c, who) ==
    IF disposed THEN Rejected(c, Err("Disposed", who, <<>>), value)
    ELSE LET stateKeys == resolveStatePaths(c.target)
             leaf == leafStateKey(stateKeys)
             class == FactoryClass(factory, leaf)
         IN  IF class = ""
             THEN Rejected(c, Err("Unregistered", who, leaf), value)
             ELSE IF ClassGoto(class) = ""
                  THEN Rejected(c, Err("NoGoto", who, leaf), value)
                  ELSE [c EXCEPT !.pc = "inGoto", !.key = leaf]

GotoState(target) ==
    /\ gcalls' = Append(gcalls, GotoStart(NewGoto(target), Len(gcalls) + 1))
    /\ UNCHANGED <<constructed, coreVars, options, applied, navs, ecalls, scalls, reads, screenshots>>

\* The awaited goto() settles.
GotoSettles(g, outcome) ==
    /\ g \in 1..Len(gcalls)
    /\ gcalls[g].pc = "inGoto"
    /\ LET c == gcalls[g]
       IN  IF outcome = "navigates"
           THEN /\ url' = ClassGoto(FactoryClass(factory, c.key))
                /\ gcalls' = [gcalls EXCEPT ![g] = Resolved(c, value)]
           ELSE /\ url' = url
                /\ gcalls' = [gcalls EXCEPT
                                ![g] = Rejected(c, Err("GotoThrew", g, c.key), value)]
    /\ UNCHANGED <<constructed, isXStateV5, factory, value, stopCount, disposed, dispatchQueue,
                   calls, vcalls, handlerLog>>
    /\ UNCHANGED <<options, applied, navs, ecalls, scalls, reads, screenshots>>

----------------------------------------------------------------------------
(* syncStateFromPage *)

\* factory.getRegisteredStates(): the keys in registration order.
getRegisteredStates(reg) == [n \in 1..Len(reg) |-> reg[n].key]

\* One insertion of the stable sort: a key goes before the first key that is
\* strictly shallower than it (bDepth - aDepth > 0).
RECURSIVE InsertByDepth(_, _)
InsertByDepth(sorted, key) ==
    IF sorted = <<>> THEN <<key>>
    ELSE IF Len(key) - Len(Head(sorted)) > 0
         THEN <<key>> \o sorted
         ELSE <<Head(sorted)>> \o InsertByDepth(Tail(sorted), key)

RECURSIVE SortByDepth(_)
SortByDepth(keys) ==
    IF keys = <<>> THEN <<>>
    ELSE InsertByDepth(SortByDepth(SubSeq(keys, 1, Len(keys) - 1)), keys[Len(keys)])

\* A probe that takes the keys as they were registered.
sortedStatesAsRegistered(registeredStates) == registeredStates

\* registeredStates.sort((a, b) => bDepth - aDepth)
sortedStates(registeredStates) == SortByDepth(registeredStates)

RECURSIVE NestFromParts(_)
NestFromParts(parts) ==
    IF Len(parts) = 1 THEN Obj(parts[1], Str(parts[1]))
    ELSE Obj(Head(parts), NestFromParts(Tail(parts)))

\* resolveStateValueFromKey: the StateValue built from a dotted key.
resolveStateValueFromKey(key) ==
    IF Len(key) = 1 THEN Str(key[1])
    ELSE IF Len(key) = 2 THEN Obj(key[1], Str(key[2]))
         ELSE NestFromParts(key)

NewSync ==
    [disposedAtCall |-> disposed, pc |-> "start", err |-> NoError,
     sorted |-> <<>>, idx |-> 0, tried |-> <<>>, matched |-> <<>>,
     endValue |-> value]

\* The error raised when no candidate has validated.
NoMatchError(who) == Err("NoMatch", who, <<>>) @@ [currentUrl |-> url]

\* syncStateFromPage up to the first awaited validateState().
SyncStart(c, who) ==
    IF disposed THEN Rejected(c, Err("Disposed", who, <<>>), value)
    ELSE LET sorted == sortedStates(getRegisteredStates(factory))
         IN  IF sorted = <<>> THEN Rejected(c, NoMatchError(who), value)
             ELSE [c EXCEPT !.pc = "probing", !.sorted = sorted, !.idx = 1]

\* A sync that accepts whatever state it detected.
SyncFinishAccepts(c, key, who) == Resolved([c EXCEPT !.matched = key], value)

\* After the loop has found a match: the detected key's StateValue is compared
\* with the machine's value.
SyncFinish(c, key, who) ==
    LET stateValue == resolveStateValueFromKey(key)
        c1 == [c EXCEPT !.matched = key]
    IN  IF value # stateValue
        THEN Rejected(c1, Err("Desync", who, key) @@
                          [currentState |-> value, detected |-> stateValue], value)
        ELSE Resolved(c1, value)

SyncStateFromPage ==
    /\ scalls' = Append(scalls, SyncStart(NewSync, Len(scalls) + 1))
    /\ UNCHANGED <<constructed, coreVars, options, applied, navs, ecalls, gcalls, reads, screenshots>>

\* The validateState() of the candidate under probe settles.
SyncProbeSettles(s) ==
    /\ s \in 1..Len(scalls)
    /\ scalls[s].pc = "probing"
    /\ LET c == scalls[s]
           key == c.sorted[c.idx]
           passes == ValidatePasses(key)
           c1 == [c EXCEPT !.tried = Append(@, [key |-> key, ok |-> passes])]
       IN  scalls' = [scalls EXCEPT ![s] =
                        IF passes THEN SyncFinish(c1, key, s)
                        ELSE IF c.idx < Len(c.sorted)
                             THEN [c1 EXCEPT !.idx = c.idx + 1]
                             ELSE Rejected(c1, NoMatchError(s), value)]
    /\ UNCHANGED <<constructed, coreVars, options, applied, navs, ecalls, gcalls, reads, screenshots>>

----------------------------------------------------------------------------
(* navigateAndValidate *)

\* The retryableErrors lists: none, and ['Timeout', 'Network'].
RetryPatternSets == {{}, {<<"Timeout">>, <<"Network">>}}

\* The options argument of a call: absent, or given.
RetryInputs ==
    {NoRetryOptions} \cup
    {RetryOptions(r, ps) : r \in 0..MaxRetries, ps \in RetryPatternSets}

\* options || this.options.defaultRetryOptions || {}, with the defaults of
\* the destructuring.
ResolveRetryOptions(callOptions, defaults) ==
    IF callOptions.given THEN callOptions
    ELSE IF defaults.given THEN defaults
         ELSE RetryOptions(0, {})

\* An error's message, as its words.
ErrorMessage(e) ==
    CASE e.kind = "Validation" -> <<"State", "validation", "failed", "for">> \o e.key
      [] e.kind = "Disposed" ->
           <<"ModelExecutor", "has", "been", "disposed", "and", "cannot", "be", "used">>
      [] e.kind = "Unhandled" ->
           <<"[Executor]", "Event", "not", "handled", "by", "active", "chain.">>
      [] e.kind = "Unregistered" ->
           <<"StateFactory:", "No", "class", "registered", "for", "State", "ID">> \o e.key
      [] e.kind = "HandlerThrew" -> <<"locator.click:", "Timeout", "exceeded.">>
      [] OTHER -> <<>>

\* message.includes(pattern)
Includes(message, pattern) ==
    \E i \in 0..(Len(message) - Len(pattern)) :
        SubSeq(message, i + 1, i + Len(pattern)) = pattern

\* A retry decision that ignores the configured substrings.
ShouldRetryIgnoringFilter(attempt, retries, retryableErrors, message) ==
    attempt < retries

\* shouldRetry
ShouldRetry(attempt, retries, retryableErrors, message) ==
    /\ attempt < retries
    /\ \/ retryableErrors = {}
       \/ \E pattern \in retryableErrors : Includes(message, pattern)

NewNav(e, ro) ==
    [event |-> e, retries |-> ro.retries, retryableErrors |-> ro.retryableErrors,
     attempt |-> 0, call |-> 0, attempts |-> <<>>, waits |-> 0,
     lastError |-> NoError, disposedAtCall |-> disposed, pc |-> "dispatching",
     err |-> NoError, endValue |-> value, vpaths |-> <<>>, vidx |-> 0,
     vlog |-> <<>>, vobjs |-> <<>>, made |-> 0]

\* A loop that captures a screenshot whatever the option says.
GiveUpAlwaysCaptures(c, error) ==
    [c EXCEPT !.pc = "screenshot", !.lastError = error]

\* The `if (!shouldRetry)` block up to the await of captureScreenshot.
GiveUp(c, error) ==
    IF options.screenshotOnFailure
    THEN [c EXCEPT !.pc = "screenshot", !.lastError = error]
    ELSE [c EXCEPT !.pc = "rejected", !.err = error, !.lastError = error]

\* The catch block of the retry loop.
NavCatch(c, error) ==
    IF ShouldRetry(c.attempt, c.retries, c.retryableErrors, ErrorMessage(error))
    THEN [c EXCEPT !.pc = "waiting", !.lastError = error]
    ELSE GiveUp(c, error)

\* The loop resumes with r, the state of the attempt's validateCurrentState().
NavAfterValidation(r) ==
    IF r.pc = "rejected" THEN NavCatch([r EXCEPT !.err = NoError], r.err)
    ELSE r

\* navigateAndValidate(event, payload, options) up to the await of the first
\* dispatch.
NavigateAndValidate(e, callOptions) ==
    /\ LET n == Len(navs) + 1
           ro == ResolveRetryOptions(callOptions, options.defaultRetryOptions)
       IN  /\ navs' = Append(navs, [NewNav(e, ro) EXCEPT
                                      !.call = Len(calls) + 1,
                                      !.attempts = <<Len(calls) + 1>>])
           /\ DispatchCall(e, n)
    /\ UNCHANGED <<constructed, isXStateV5, factory, value, stopCount, disposed, url, vcalls,
                   handlerLog>>
    /\ UNCHANGED <<options, applied, ecalls, gcalls, scalls, reads, screenshots>>

\* A loop that goes on to validateCurrentState() without awaiting its dispatch.
NavDispatchNotAwaited(c) == TRUE

\* `await this.dispatch(event, payload)`: the loop resumes once the attempt's
\* dispatch has settled.
NavDispatchAwaited(c) == Settled(calls[c.call].pc)

\* The attempt's dispatch has settled: the catch block, or the start of
\* validateCurrentState().
NavDispatchSettles(n) ==
    /\ n \in 1..Len(navs)
    /\ navs[n].pc = "dispatching"
    /\ NavDispatchAwaited(navs[n])
    /\ LET c == navs[n]
           d == calls[c.call]
           after == IF d.pc = "rejected" THEN NavCatch(c, d.err)
                    ELSE NavAfterValidation(
                           ValidationStart(c, value, factory, disposed, n))
       IN  /\ navs' = [navs EXCEPT ![n] = EndOfStep(after)]
           /\ constructed' = constructed + after.made
    /\ UNCHANGED <<coreVars, options, applied, ecalls, gcalls, scalls, reads, screenshots>>

\* One validateState() of the attempt's validateCurrentState() settles.
NavValidateSettles(n) ==
    /\ n \in 1..Len(navs)
    /\ navs[n].pc = "validating"
    /\ LET c == navs[n]
           passes == ValidatePasses(c.vpaths[c.vidx])
           r == [ValidationOutcome(c, passes, n) EXCEPT !.vlog = Checked(c, passes)]
       IN  navs' = [navs EXCEPT ![n] = NavAfterValidation(r)]
    /\ UNCHANGED <<constructed, coreVars, options, applied, ecalls, gcalls, scalls, reads, screenshots>>

\* page.waitForTimeout(delay) has elapsed: the next attempt dispatches.
NavWaitSettles(n) ==
    /\ n \in 1..Len(navs)
    /\ navs[n].pc = "waiting"
    /\ LET c == navs[n]
       IN  /\ navs' = [navs EXCEPT ![n] =
                         [c EXCEPT !.attempt = c.attempt + 1,
                                   !.waits = c.waits + 1,
                                   !.pc = "dispatching",
                                   !.call = Len(calls) + 1,
                                   !.attempts = Append(c.attempts, Len(calls) + 1)]]
           /\ DispatchCall(c.event, n)
    /\ UNCHANGED <<constructed, isXStateV5, factory, value, stopCount, disposed, url, vcalls,
                   handlerLog>>
    /\ UNCHANGED <<options, applied, ecalls, gcalls, scalls, reads, screenshots>>

\* captureScreenshot: page.screenshot() settles, its failure is swallowed, and
\* the loop throws lastError.
NavScreenshotSettles(n, captured) ==
    /\ n \in 1..Len(navs)
    /\ navs[n].pc = "screenshot"
    /\ screenshots' = Append(screenshots, [nav |-> n, ok |-> captured])
    /\ navs' = [navs EXCEPT ![n] = [navs[n] EXCEPT !.pc = "rejected",
                                                   !.err = navs[n].lastError]]
    /\ UNCHANGED <<constructed, coreVars, options, applied, ecalls, gcalls, scalls, reads>>

----------------------------------------------------------------------------

(* Functions called on their own *)

NoApplication == [fn |-> "none"]

\* The segments of the state keys given to the functions.
Segments == {"a", "b", "c"}

\* The StateValues with one active path of d nodes.
RECURSIVE StateValuesOfDepth(_)
StateValuesOfDepth(d) ==
    IF d = 1 THEN {Str(s) : s \in Segments}
    ELSE {Obj(p, c) : p \in Segments, c \in StateValuesOfDepth(d - 1)}

StateValues == UNION {StateValuesOfDepth(d) : d \in 1..MaxDepth}

\* resolveStatePaths(v) called on its own.
ResolveStatePathsCall(v) ==
    /\ applied' = [fn |-> "resolveStatePaths", arg |-> v,
                   result |-> resolveStatePaths(v)]
    /\ UNCHANGED <<constructed, coreVars, options, navs, ecalls, gcalls, scalls, reads,
                   screenshots>>

\* The dotted keys of 1 to MaxDepth segments.
RECURSIVE KeysOfDepth(_)
KeysOfDepth(d) ==
    IF d = 1 THEN {<<s>> : s \in Segments}
    ELSE {<<s>> \o k : s \in Segments, k \in KeysOfDepth(d - 1)}

StateKeys == UNION {KeysOfDepth(d) : d \in 1..MaxDepth}

\* resolveStateValueFromKey(stateKey) called on its own.
ResolveStateValueFromKeyCall(k) ==
    /\ applied' = [fn |-> "resolveStateValueFromKey", arg |-> k,
                   result |-> resolveStateValueFromKey(k)]
    /\ UNCHANGED <<constructed, coreVars, options, navs, ecalls, gcalls, scalls, reads,
                   screenshots>>

\* What XState's createActor and interpret do when the constructor calls
\* them: createActor may be missing (XState v4), return an actor or throw;
\* interpret returns an actor, a service, something else, or throws.
CreateActorErrors == {<<"createActor", "failed">>, <<"Invalid", "machine">>}
InterpretErrors == {<<"interpret", "failed">>, <<"Invalid", "machine">>}

CreateActorOutcomes ==
    {[kind |-> "absent"], [kind |-> "actor"]} \cup
    {[kind |-> "throws", message |-> e] : e \in CreateActorErrors}

InterpretOutcomes ==
    {[kind |-> k] : k \in {"actor", "service", "unexpected"}} \cup
    {[kind |-> "throws", message |-> e] : e \in InterpretErrors}

\* The error thrown by the catch block around interpret().
InitializationError(message) ==
    [ok |-> FALSE,
     message |-> <<"Failed", "to", "initialize", "XState:">> \o message \o
                 <<"Ensure", "XState", "is", "properly", "installed">>]

\* The constructor's try block around interpret(machine).start().
ConstructByInterpret(interpreted) ==
    CASE interpreted.kind = "actor" -> [ok |-> TRUE, isXStateV5 |-> TRUE]
      [] interpreted.kind = "service" -> [ok |-> TRUE, isXStateV5 |-> FALSE]
      [] interpreted.kind = "unexpected" ->
           InitializationError(<<"XState", "interpret()", "returned", "an",
                                 "unexpected", "result.">>)
      [] OTHER -> InitializationError(interpreted.message)

\* new ModelExecutor(page, machine, factory): the executor's runtime shape,
\* or the error thrown.
Constructor(created, interpreted) ==
    IF created.kind = "actor" THEN [ok |-> TRUE, isXStateV5 |-> TRUE]
    ELSE ConstructByInterpret(interpreted)

\* An executor is constructed on its own.
Construct(created, interpreted) ==
    /\ applied' = [fn |-> "constructor", createActor |-> created,
                   interpret |-> interpreted,
                   result |-> Constructor(created, interpreted)]
    /\ UNCHANGED <<constructed, coreVars, options, navs, ecalls, gcalls, scalls, reads,
                   screenshots>>

----------------------------------------------------------------------------

\* The options the tests construct executors with.
ExecutorOptions ==
    [screenshotOnFailure : BOOLEAN,
     defaultRetryOptions : {NoRetryOptions},
     stateValueFormat : {"auto", "string", "object"}]

\* The options that matter to the retry loop.
RetryExecutorOptions ==
    [screenshotOnFailure : BOOLEAN,
     defaultRetryOptions : {RetryOptions(1, {})},
     stateValueFormat : {"auto"}]

\* The state after construction with one of the given registries and options.
InitOf(registrySet, optionSet) ==
    /\ isXStateV5 \in BOOLEAN
    /\ factory \in registrySet
    /\ value = MachineInitial
    /\ stopCount = 0
    /\ disposed = FALSE
    /\ url \in Locations
    /\ dispatchQueue = 0
    /\ calls = <<>>
    /\ vcalls = <<>>
    /\ handlerLog = <<>>
    /\ options \in optionSet
    /\ navs = <<>>
    /\ ecalls = <<>>
    /\ gcalls = <<>>
    /\ scalls = <<>>
    /\ reads = <<>>
    /\ screenshots = <<>>
    /\ applied = NoApplication
    /\ constructed = 0

InitWith(optionSet) == InitOf(Registries, optionSet)

\* An executor created without options.
Init == InitWith({DefaultOptions})

\* An executor whose factory may lack keys of the machine.
InitFactory == InitOf(PartialRegistries, {DefaultOptions})

\* An executor created with options.
InitApi == InitWith(ExecutorOptions)
InitRetry == InitWith(RetryExecutorOptions)

\* The dispatch queue: calls submitted at any time, awaited or not.
Next ==
    \/ \E e \in Events : Dispatch(e, MaxCalls)
    \/ \E i \in 1..MaxCalls : Execute(i)
    \/ \E i \in 1..MaxCalls, o \in HandlerOutcomes : HandlerSettles(i, o)
    \/ \E i \in 1..MaxCalls : ValidateSettles(i)
    \/ Dispose

Spec == Init /\ [][Next]_vars

\* Direct validateCurrentState() calls next to dispatches.
NextValidate ==
    \/ \E e \in Events : Dispatch(e, MaxCallsValidate)
    \/ \E i \in 1..MaxCallsValidate : Execute(i)
    \/ \E i \in 1..MaxCallsValidate, o \in HandlerOutcomes : HandlerSettles(i, o)
    \/ \E i \in 1..MaxCallsValidate : ValidateSettles(i)
    \/ ValidateCurrentState
    \/ \E j \in 1..MaxValidates : DirectValidateSettles(j)
    \/ Dispose

SpecValidate == Init /\ [][NextValidate]_vars

\* The same operations on a factory that may lack keys of the machine.
SpecFactory == InitFactory /\ [][NextValidate]_vars

\* Use after dispose: dispatches, validations and reads of the getters, before
\* and after dispose().
NextDispose ==
    \/ \E e \in Events : OpsIssued < MaxDisposeOps /\ Dispatch(e, MaxCallsValidate)
    \/ \E i \in 1..Len(calls) : Execute(i)
    \/ \E i \in 1..Len(calls), o \in HandlerOutcomes : HandlerSettles(i, o)
    \/ \E i \in 1..Len(calls) : ValidateSettles(i)
    \/ OpsIssued < MaxDisposeOps /\ ValidateCurrentState
    \/ \E j \in 1..Len(vcalls) : DirectValidateSettles(j)
    \/ \E getter \in Getters : OpsIssued < MaxDisposeOps /\ Read(getter)
    \/ Dispose

SpecDispose == Init /\ [][NextDispose]_vars

\* The retry loop of navigateAndValidate, next to the gotoState of another
\* caller.
NextRetry ==
    \/ \E e \in Events, ro \in RetryInputs :
          Len(navs) < MaxNavs /\ NavigateAndValidate(e, ro)
    \/ \E n \in 1..Len(navs) : NavDispatchSettles(n)
    \/ \E n \in 1..Len(navs) : NavValidateSettles(n)
    \/ \E n \in 1..Len(navs) : NavWaitSettles(n)
    \/ \E n \in 1..Len(navs), captured \in BOOLEAN : NavScreenshotSettles(n, captured)
    \/ \E i \in 1..Len(calls) : Execute(i)
    \/ \E i \in 1..Len(calls), o \in HandlerOutcomes : HandlerSettles(i, o)
    \/ \E i \in 1..Len(calls) : ValidateSettles(i)
    \/ \E target \in GotoInputs : Len(gcalls) < MaxGotos /\ GotoState(target)
    \/ \E g \in 1..Len(gcalls), o \in GotoOutcomes : GotoSettles(g, o)
    \/ Dispose

SpecRetry == InitRetry /\ [][NextRetry]_vars

\* The probe of syncStateFromPage, next to gotoState.
NextSync ==
    \/ Len(scalls) < MaxSyncs /\ SyncStateFromPage
    \/ \E s \in 1..Len(scalls) : SyncProbeSettles(s)
    \/ \E target \in GotoInputs : Len(gcalls) < MaxGotos /\ GotoState(target)
    \/ \E g \in 1..Len(gcalls), o \in GotoOutcomes : GotoSettles(g, o)
    \/ Dispose

SpecSync == Init /\ [][NextSync]_vars

\* syncStateFromPage next to the dispatches that move the machine.
NextSyncDispatch ==
    \/ \E e \in Events : Dispatch(e, MaxCallsSync)
    \/ \E i \in 1..Len(calls) : Execute(i)
    \/ \E i \in 1..Len(calls), o \in HandlerOutcomes : HandlerSettles(i, o)
    \/ \E i \in 1..Len(calls) : ValidateSettles(i)
    \/ Len(scalls) < MaxSyncs /\ SyncStateFromPage
    \/ \E s \in 1..Len(scalls) : SyncProbeSettles(s)
    \/ Dispose

SpecSyncDispatch == Init /\ [][NextSyncDispatch]_vars

\* Reads of the state getters next to the dispatches that move the machine,
\* on executors of every stateValueFormat.
NextRead ==
    \/ \E e \in Events : Dispatch(e, MaxCallsRead)
    \/ \E i \in 1..Len(calls) : Execute(i)
    \/ \E i \in 1..Len(calls), o \in HandlerOutcomes : HandlerSettles(i, o)
    \/ \E i \in 1..Len(calls) : ValidateSettles(i)
    \/ \E getter \in Getters : Len(reads) < MaxReads /\ Read(getter)
    \/ Dispose

SpecRead == InitApi /\ [][NextRead]_vars

\* expectState next to the dispatches that move the machine and to the
\* gotoState calls that change the page.
NextExpect ==
    \/ \E e \in Events : Dispatch(e, MaxCallsExpect)
    \/ \E i \in 1..Len(calls) : Execute(i)
    \/ \E i \in 1..Len(calls), o \in HandlerOutcomes : HandlerSettles(i, o)
    \/ \E i \in 1..Len(calls) : ValidateSettles(i)
    \/ \E x \in ExpectInputs, strict \in BOOLEAN :
          Len(ecalls) < MaxExpects /\ ExpectState(x, strict)
    \/ \E k \in 1..Len(ecalls) : ExpectValidateSettles(k)
    \/ \E target \in GotoInputs : Len(gcalls) < MaxGotos /\ GotoState(target)
    \/ \E g \in 1..Len(gcalls), o \in GotoOutcomes : GotoSettles(g, o)
    \/ Dispose

SpecExpect == Init /\ [][NextExpect]_vars

\* The dispatch queue with the scheduling JavaScript guarantees: the
\* continuation of a settled promise runs; that every awaited handler and
\* validateState() settles is assumed.
LiveEvents == {"NAVIGATE_TO_DOCS", "NAVIGATE_TO_HOME", "NON_EXISTENT_EVENT"}

NextLive ==
    \/ \E e \in LiveEvents : Dispatch(e, MaxCallsLive)
    \/ \E i \in 1..MaxCallsLive : Execute(i)
    \/ \E i \in 1..MaxCallsLive, o \in HandlerOutcomes : HandlerSettles(i, o)
    \/ \E i \in 1..MaxCallsLive : ValidateSettles(i)
    \/ Dispose

\* The steps the event loop takes on its own: a continuation of a settled
\* promise, a handler or a validateState() settling.
Continues ==
    \/ \E i \in 1..MaxCallsLive : Execute(i)
    \/ \E i \in 1..MaxCallsLive, o \in HandlerOutcomes : HandlerSettles(i, o)
    \/ \E i \in 1..MaxCallsLive : ValidateSettles(i)

\* A run that starts on the site's home page.
InitLive == Init /\ url = "home"

SpecLive == InitLive /\ [][NextLive]_vars /\ WF_vars(Continues)

\* Dispatches that pass a payload.
PayloadEvents ==
    {"NAVIGATE_TO_DOCS", "NAVIGATE_TO_GETTING_STARTED", "NAVIGATE_TO_API"}

NextPayload ==
    \/ \E e \in PayloadEvents, payload \in Payloads : DispatchPayload(e, payload, MaxCallsPayload)
    \/ \E i \in 1..Len(calls) : Execute(i)
    \/ \E i \in 1..Len(calls), o \in HandlerOutcomes : HandlerSettles(i, o)
    \/ \E i \in 1..Len(calls) : ValidateSettles(i)
    \/ Dispose

SpecPayload == Init /\ [][NextPayload]_vars

\* resolveStatePaths applied to one StateValue after another.
NextPaths == \E v \in StateValues : ResolveStatePathsCall(v)

SpecPaths == Init /\ [][NextPaths]_vars

\* navigateAndValidate calls issued without awaiting one another, none of
\* them with retries.
NavEvents == {"NAVIGATE_TO_DOCS", "NAVIGATE_TO_HOME", "NON_EXISTENT_EVENT"}

NextNavs ==
    \/ \E e \in NavEvents :
          Len(navs) < MaxNavsConcurrent /\ NavigateAndValidate(e, NoRetryOptions)
    \/ \E n \in 1..Len(navs) : NavDispatchSettles(n)
    \/ \E n \in 1..Len(navs) : NavValidateSettles(n)
    \/ \E i \in 1..Len(calls) : Execute(i)
    \/ \E i \in 1..Len(calls), o \in HandlerOutcomes : HandlerSettles(i, o)
    \/ \E i \in 1..Len(calls) : ValidateSettles(i)

SpecNavs == Init /\ [][NextNavs]_vars

\* resolveStateValueFromKey applied to one dotted key after another.
NextKeys == \E k \in StateKeys : ResolveStateValueFromKeyCall(k)

SpecKeys == Init /\ [][NextKeys]_vars

\* Executors constructed under every behaviour of XState.
NextConstruct ==
    \E created \in CreateActorOutcomes, interpreted \in InterpretOutcomes :
        Construct(created, interpreted)

SpecConstruct == Init /\ [][NextConstruct]_vars

\* The whole API: operations of any kind, issued at any time.
NextApi ==
    \/ \E e \in Events : OpsIssued < MaxOps /\ Dispatch(e, MaxOps)
    \/ \E i \in 1..Len(calls) : Execute(i)
    \/ \E i \in 1..Len(calls), o \in HandlerOutcomes : HandlerSettles(i, o)
    \/ \E i \in 1..Len(calls) : ValidateSettles(i)
    \/ OpsIssued < MaxOps /\ ValidateCurrentState
    \/ \E j \in 1..Len(vcalls) : DirectValidateSettles(j)
    \/ Dispose
    \/ \E getter \in Getters : OpsIssued < MaxOps /\ Read(getter)
    \/ \E x \in ExpectInputs, strict \in BOOLEAN :
          OpsIssued < MaxOps /\ ExpectState(x, strict)
    \/ \E k \in 1..Len(ecalls) : ExpectValidateSettles(k)
    \/ \E target \in GotoInputs : OpsIssued < MaxOps /\ GotoState(target)
    \/ \E g \in 1..Len(gcalls), o \in GotoOutcomes : GotoSettles(g, o)
    \/ OpsIssued < MaxOps /\ SyncStateFromPage
    \/ \E s \in 1..Len(scalls) : SyncProbeSettles(s)
    \/ \E e \in Events, ro \in RetryInputs :
          OpsIssued < MaxOps /\ NavigateAndValidate(e, ro)
    \/ \E n \in 1..Len(navs) : NavDispatchSettles(n)
    \/ \E n \in 1..Len(navs) : NavValidateSettles(n)
    \/ \E n \in 1..Len(navs) : NavWaitSettles(n)
    \/ \E n \in 1..Len(navs), captured \in BOOLEAN : NavScreenshotSettles(n, captured)

SpecApi == InitApi /\ [][NextApi]_vars

----------------------------------------------------------------------------
(* Properties of the dispatch queue *)

InProgress(c) == c.pc \in {"inHandler", "validating"}

\* The events of the calls, applied to the machine one at a time.
RECURSIVE ApplyEvents(_, _)
ApplyEvents(v, cs) ==
    IF cs = <<>> THEN v
    ELSE ApplyEvents(MachineTransition(v, Head(cs).event), Tail(cs))

\* The levels of a chain whose object has a method named after the event.
LevelsHaving(chain, e) ==
    {n \in 1..Len(chain) : e \in ClassMethods(FactoryClass(factory, chain[n]))}

\* The handler invocations made on behalf of call i.
InvocationsOf(i) == {n \in 1..Len(handlerLog) : handlerLog[n].call = i}

\* The call's own failures: its handler threw, its event was unhandled, or
\* its post-commit validation failed.
OwnFailure(c, i) ==
    /\ c.pc = "rejected"
    /\ c.err.origin = i
    /\ c.err.kind \in {"HandlerThrew", "Unhandled", "Validation"}

\* C1: when the call before it failed in its own unit of work, a call that
\* has settled ran its own unit of work and was not rejected with the earlier
\* call's error.
C1_FailureDoesNotBlockNext ==
    \A i \in 1..Len(calls) :
        LET c == calls[i]
        IN  (/\ ~disposed
             /\ c.queued
             /\ c.prev > 0
             /\ Settled(c.pc)
             /\ OwnFailure(calls[c.prev], c.prev))
            => (c.started /\ c.err.origin \in {0, i})

\* C2: at most one dispatch unit of work is in progress, and a unit of work
\* has started only if every call submitted before it has settled.
C2_SingleFlight ==
    /\ \A i, j \in 1..Len(calls) :
          (InProgress(calls[i]) /\ InProgress(calls[j])) => i = j
    /\ \A i, j \in 1..Len(calls) :
          (j < i /\ calls[i].started) => Settled(calls[j].pc)

\* Three calls were issued without awaiting: the second is in its handler
\* after the first has settled, while the third still waits.
C2_Witness ==
    /\ Len(calls) = 3
    /\ Settled(calls[1].pc) /\ calls[1].started
    /\ calls[2].pc = "inHandler"
    /\ calls[3].pc = "awaitPrev"

\* C3: the event handlers are invoked in the order in which their dispatch
\* calls were submitted.
C3_HandlersInSubmissionOrder ==
    \A a, b \in 1..Len(handlerLog) :
        a < b => handlerLog[a].call < handlerLog[b].call

\* The handlers of three calls have been invoked, the third call having been
\* submitted while an earlier one was still running.
C3_Witness ==
    /\ Len(handlerLog) = 3
    /\ handlerLog[1].call = 1 /\ handlerLog[2].call = 2 /\ handlerLog[3].call = 3
    /\ calls[3].pc = "inHandler"

\* C4: on an executor that is not disposed, when every submitted call has
\* resolved, the machine's value is the one reached by applying the calls'
\* events one at a time in submission order.
C4_ConcurrentEqualsSequential ==
    (/\ ~disposed
     /\ calls # <<>>
     /\ \A i \in 1..Len(calls) : calls[i].pc = "resolved")
    => value = ApplyEvents(MachineInitial, calls)

\* NAVIGATE_TO_DOCS, NAVIGATE_TO_API, NAVIGATE_TO_HOME from 'home' have all
\* resolved.
C4_Witness ==
    /\ ~disposed
    /\ Len(calls) = 3
    /\ calls[1].event = "NAVIGATE_TO_DOCS"
    /\ calls[2].event = "NAVIGATE_TO_API"
    /\ calls[3].event = "NAVIGATE_TO_HOME"
    /\ \A i \in 1..3 : calls[i].pc = "resolved"
    /\ value = Home

\* C5: a dispatch whose event has no enabled transition in the state current
\* at its turn resolves and leaves the machine's value unchanged.
C5_DisabledEventResolves ==
    \A i \in 1..Len(calls) :
        LET c == calls[i]
        IN  (/\ ~disposed
             /\ c.started
             /\ Settled(c.pc)
             /\ ~NextStateChanged(c.startValue, c.event))
            => (c.pc = "resolved" /\ c.endValue = c.startValue)

\* C6: a dispatch whose event would not change the machine's state invokes no
\* handler, injects no payload and runs no validation.
C6_DisabledEventNoSideEffects ==
    \A i \in 1..Len(calls) :
        LET c == calls[i]
        IN  (c.started /\ ~NextStateChanged(c.startValue, c.event))
            => (/\ InvocationsOf(i) = {}
                /\ c.injected = <<>>
                /\ c.vlog = <<>>)

\* C7: a dispatch whose event would change the machine's state and for which
\* no object of the active chain has a handler rejects with the
\* unhandled-event error, and the machine's value after it is the value
\* before it.
C7_UnhandledEventNotCommitted ==
    \A i \in 1..Len(calls) :
        LET c == calls[i]
        IN  (/\ ~disposed
             /\ c.started
             /\ Settled(c.pc)
             /\ NextStateChanged(c.startValue, c.event)
             /\ c.injected # <<>>
             /\ LevelsHaving(c.injected, c.event) = {})
            => (/\ c.pc = "rejected"
                /\ c.err.kind = "Unhandled"
                /\ c.endValue = c.startValue)

\* C8: a dispatch that reaches the handler search invokes exactly one
\* handler when some object of the chain has a method named after the event,
\* the one of the deepest such object, and none otherwise.
C8_DeepestHandlerOnly ==
    \A i \in 1..Len(calls) :
        LET c == calls[i]
            having == LevelsHaving(c.injected, c.event)
        IN  /\ Cardinality(InvocationsOf(i)) <= 1
            /\ (c.injected = <<>> \/ having = {}) => InvocationsOf(i) = {}
            /\ (c.injected # <<>> /\ having # {}) =>
                  \E n \in InvocationsOf(i) :
                      /\ handlerLog[n].chain = c.injected
                      /\ handlerLog[n].level \in having
                      /\ \A m \in having : m <= handlerLog[n].level
                      /\ handlerLog[n].key = c.injected[handlerLog[n].level]

\* The leaf lacks the method and an ancestor's method was invoked.
C8_Witness ==
    \E n \in 1..Len(handlerLog) :
        /\ handlerLog[n].level < Len(handlerLog[n].chain)
        /\ handlerLog[n].event
              \notin ClassMethods(FactoryClass(factory,
                        handlerLog[n].chain[Len(handlerLog[n].chain)]))

\* C9: a dispatch that resolved and changed the machine's value invoked a
\* handler, and validateState was then called and passed on every object of
\* the new state's chain, root to leaf.
C9_ResolvedChangeWasValidated ==
    \A i \in 1..Len(calls) :
        LET c == calls[i]
            paths == resolveStatePaths(c.endValue)
        IN  (c.pc = "resolved" /\ c.endValue # c.startValue)
            => (/\ InvocationsOf(i) # {}
                /\ c.sent
                /\ Len(c.vlog) = Len(paths)
                /\ \A n \in 1..Len(paths) :
                      /\ c.vlog[n].key = paths[n]
                      /\ c.vlog[n].ok)

\* A dispatch into the two-level state docs.overview has resolved.
C9_Witness ==
    \E i \in 1..Len(calls) :
        /\ calls[i].pc = "resolved"
        /\ calls[i].startValue = Home
        /\ calls[i].endValue = DocsOverview
        /\ Len(calls[i].vlog) = 2

----------------------------------------------------------------------------
(* Properties of validateCurrentState *)

\* The validateState() calls of one validation run: root to leaf, one level
\* after the other, none after a failure.
InOrderUntilFailure(c) ==
    /\ Len(c.vlog) <= Len(c.vpaths)
    /\ \A n \in 1..Len(c.vlog) :
          /\ c.vlog[n].level = n
          /\ c.vlog[n].key = c.vpaths[n]
          /\ n < Len(c.vlog) => c.vlog[n].ok
    /\ c.pc = "validating" => (c.vidx = Len(c.vlog) + 1)
    /\ (c.pc = "rejected" /\ c.err.kind = "Validation" /\ c.vpaths # <<>>)
          => (~c.vlog[Len(c.vlog)].ok /\ c.err.key = c.vpaths[Len(c.vlog)])
    /\ (c.pc = "resolved" /\ c.vpaths # <<>>) => Len(c.vlog) = Len(c.vpaths)

\* C10: validateCurrentState calls validateState root to leaf, each after the
\* one before it has passed, and validates no level deeper than the first
\* failing one.
C10_ValidationStopsAtFirstFailure ==
    /\ \A j \in 1..Len(vcalls) : InOrderUntilFailure(vcalls[j])
    /\ \A i \in 1..Len(calls) : InOrderUntilFailure(calls[i])

\* In a 2-level chain the parent has failed and the child was not validated.
C10_Witness ==
    \E j \in 1..Len(vcalls) :
        /\ vcalls[j].pc = "rejected"
        /\ Len(vcalls[j].vpaths) = 2
        /\ Len(vcalls[j].vlog) = 1
        /\ ~vcalls[j].vlog[1].ok

\* Validation run c has become d by raising the StateValidationError of its
\* failing level.
RaisedAtLevel(c, d) ==
    /\ c.pc = "validating"
    /\ d.pc = "rejected"
    /\ d.err.kind = "Validation"

\* The error of d names the failing level, the chain walked up to it, the
\* machine's state and the page's URL at the failure, and the failure itself.
CarriesContextOfFailure(c, d) ==
    LET i == c.vidx
        details == d.err.details
    IN  /\ details.expectedState = c.vpaths[i]
        /\ details.validationChain = [n \in 1..i |-> c.vpaths[n]]
        /\ details.currentState = flattenStateValue(value)
        /\ details.currentUrl = url
        /\ details.originalError = ValidationFailure(c.vpaths[i])

\* C11 as stated: a StateValidationError raised at a failing level carries
\* that level's key as expected state, the full path of the state under
\* validation (every level, root to leaf), a URL and the level's failure.
C11_ErrorCarriesFullStatePath ==
    LET FullPath(c) ==
            (c.pc = "rejected" /\ c.err.kind = "Validation" /\ c.vlog # <<>>)
            => (/\ c.err.details.expectedState = c.vpaths[Len(c.vlog)]
                /\ c.err.details.validationChain = resolveStatePaths(c.endValue)
                /\ c.err.details.currentUrl \in Locations
                /\ c.err.details.originalError =
                      ValidationFailure(c.vpaths[Len(c.vlog)]))
    IN  /\ \A j \in 1..Len(vcalls) : FullPath(vcalls[j])
        /\ \A i \in 1..Len(calls) : FullPath(calls[i])

\* C11, amended: when validation fails at level i, the StateValidationError
\* raised carries the key of level i as expected state, the chain walked so
\* far (levels root to i, not the deeper ones), the flattened current state,
\* the page's URL at the failure and the failure of level i.
C11_ErrorCarriesChainWalkedSoFar ==
    [][ /\ \A j \in 1..Len(vcalls) :
              RaisedAtLevel(vcalls[j], vcalls'[j])
              => CarriesContextOfFailure(vcalls[j], vcalls'[j])
        /\ \A i \in 1..Len(calls) :
              RaisedAtLevel(calls[i], calls'[i])
              => CarriesContextOfFailure(calls[i], calls'[i]) ]_vars

\* The parent level of docs.overview has failed: the error names 'docs', and
\* its chain holds 'docs' only.
C11_Witness ==
    \E j \in 1..Len(vcalls) :
        /\ vcalls[j].pc = "rejected"
        /\ vcalls[j].err.kind = "Validation"
        /\ vcalls[j].vpaths = << <<"docs">>, <<"docs", "overview">> >>
        /\ vcalls[j].err.details.expectedState = <<"docs">>
        /\ vcalls[j].err.details.validationChain = << <<"docs">> >>
        /\ vcalls[j].err.details.currentState = <<"docs", "overview">>

----------------------------------------------------------------------------
(* Properties of dispose *)

\* C12: every dispatch, validateCurrentState or getter read issued on a
\* disposed executor raises the disposed-use error without doing anything
\* else, and the runtime's stop() has been called exactly once however many
\* times dispose() was called.
C12_DisposedUseRaises ==
    [][ /\ stopCount = (IF disposed THEN 1 ELSE 0)
        /\ stopCount' = (IF disposed' THEN 1 ELSE 0)
        /\ disposed => disposed'
        /\ disposed =>
             /\ Len(calls') > Len(calls) =>
                  LET c == calls'[Len(calls')]
                  IN  /\ c.pc = "rejected"
                      /\ c.err.kind = "Disposed"
                      /\ ~c.started
                      /\ ~c.queued
             /\ Len(vcalls') > Len(vcalls) =>
                  LET c == vcalls'[Len(vcalls')]
                  IN  /\ c.pc = "rejected"
                      /\ c.err.kind = "Disposed"
                      /\ c.vlog = <<>>
             /\ Len(reads') > Len(reads) =>
                  LET r == reads'[Len(reads')]
                  IN  /\ ~r.got.ok
                      /\ r.got.err.kind = "Disposed" ]_vars

\* After dispose(), a dispatch, a validateCurrentState and a read of
\* currentStateValue have each raised the disposed-use error.
C12_Witness ==
    /\ disposed
    /\ stopCount = 1
    /\ \E i \in 1..Len(calls) :
          ~calls[i].queued /\ calls[i].err.kind = "Disposed"
    /\ \E j \in 1..Len(vcalls) :
          vcalls[j].err.kind = "Disposed" /\ vcalls[j].vpaths = <<>>
    /\ \E r \in 1..Len(reads) :
          /\ reads[r].getter = "currentStateValue"
          /\ reads[r].disposedAtCall
          /\ ~reads[r].got.ok

\* C13: an operation called on a disposed executor fails at once with the
\* disposed-use error: it does not wait, retry, invoke a handler or a
\* validation, or take a screenshot, and it does not complete successfully.
C13_DisposedFailsFast ==
    /\ \A n \in 1..Len(navs) :
          navs[n].disposedAtCall =>
             /\ navs[n].pc \in {"dispatching", "rejected"}
             /\ navs[n].waits = 0
             /\ Len(navs[n].attempts) = 1
             /\ navs[n].vlog = <<>>
             /\ \A a \in 1..Len(navs[n].attempts) : ~calls[navs[n].attempts[a]].started
             /\ \A s \in 1..Len(screenshots) : screenshots[s].nav # n
             /\ navs[n].pc = "rejected" => navs[n].err.kind = "Disposed"
    /\ \A k \in 1..Len(ecalls) :
          ecalls[k].disposedAtCall =>
             /\ ecalls[k].pc = "rejected"
             /\ ecalls[k].err.kind = "Disposed"
             /\ ecalls[k].vlog = <<>>
    /\ \A g \in 1..Len(gcalls) :
          gcalls[g].disposedAtCall =>
             (gcalls[g].pc = "rejected" /\ gcalls[g].err.kind = "Disposed")
    /\ \A s \in 1..Len(scalls) :
          scalls[s].disposedAtCall =>
             /\ scalls[s].pc = "rejected"
             /\ scalls[s].err.kind = "Disposed"
             /\ scalls[s].tried = <<>>
    /\ \A r \in 1..Len(reads) :
          reads[r].disposedAtCall =>
             (~reads[r].got.ok /\ reads[r].got.err.kind = "Disposed")
    /\ \A i \in DirectCalls :
          ~calls[i].queued =>
             (calls[i].pc = "rejected" /\ calls[i].err.kind = "Disposed")

----------------------------------------------------------------------------
(* Properties of navigateAndValidate *)

\* The dispatch() calls of the attempts of navigateAndValidate call n.
AttemptCalls(n) == [a \in 1..Len(navs[n].attempts) |-> calls[navs[n].attempts[a]]]

\* C14: a navigateAndValidate with retries = r that has given up after its
\* last attempt has made exactly r + 1 attempts, each of which ran the unit
\* of work of its dispatch, with a wait between consecutive attempts, and it
\* rejects with the error of the last attempt; a call that resolved made no
\* attempt after the successful one.
C14_RetriesRunEveryAttempt ==
    \A n \in 1..Len(navs) :
        LET c == navs[n]
        IN  /\ (~disposed /\ c.pc = "rejected" /\ c.attempt = c.retries)
               => (/\ Len(c.attempts) = c.retries + 1
                   /\ c.waits = c.retries
                   /\ \A a \in 1..Len(c.attempts) : AttemptCalls(n)[a].started
                   /\ c.err = c.lastError)
            /\ c.pc = "resolved"
               => (/\ Len(c.attempts) = c.attempt + 1
                   /\ c.call = c.attempts[Len(c.attempts)]
                   /\ calls[c.call].pc = "resolved")

\* Some configured substring occurs in the message of the error the call has
\* caught last.
MatchesFilter(c) ==
    \E pattern \in c.retryableErrors : Includes(ErrorMessage(c.lastError), pattern)

GaveUp(c) == c.pc \in {"screenshot", "rejected"}

\* C15: navigateAndValidate goes on to another attempt only if attempts
\* remain and either no substring is configured or the failure's message
\* contains one of them; it gives up only otherwise, and a failure matching
\* none of the configured substrings ends the call with the attempts made so
\* far.
C15_RetryOnlyWhenFilterAllows ==
    \A n \in 1..Len(navs) :
        LET c == navs[n]
        IN  /\ c.pc = "waiting"
               => (/\ c.attempt < c.retries
                   /\ (c.retryableErrors = {} \/ MatchesFilter(c)))
            /\ GaveUp(c)
               => (\/ c.attempt = c.retries
                   \/ (c.retryableErrors # {} /\ ~MatchesFilter(c)))
            /\ (GaveUp(c) /\ c.retryableErrors # {} /\ ~MatchesFilter(c))
               => (Len(c.attempts) = c.attempt + 1 /\ c.waits = c.attempt)

\* With ['Timeout', 'Network'] configured and two retries left, the first
\* attempt failed with a StateValidationError and the call was rejected with
\* it after that one attempt.
C15_Witness ==
    \E n \in 1..Len(navs) :
        /\ navs[n].retryableErrors = {<<"Timeout">>, <<"Network">>}
        /\ navs[n].retries = 2
        /\ navs[n].pc = "rejected"
        /\ navs[n].err.kind = "Validation"
        /\ navs[n].attempt = 0
        /\ Len(navs[n].attempts) = 1

\* C16: navigateAndValidate goes on to another attempt only after a
\* StateValidationError and only with retries > 0; after an unhandled-event,
\* unregistered-state or disposed-use error it does not wait for a retry.
C16_OnlyValidationFailuresRetried ==
    \A n \in 1..Len(navs) :
        navs[n].pc = "waiting"
        => (/\ navs[n].retries > 0
            /\ navs[n].lastError.kind \notin {"Unhandled", "Unregistered", "Disposed"}
            /\ navs[n].lastError.kind = "Validation")

\* The page.screenshot() calls made by navigateAndValidate call n.
ShotsOf(n) == {s \in 1..Len(screenshots) : screenshots[s].nav = n}

\* C17: a navigateAndValidate that has given up and rejected has made exactly
\* one screenshot capture when screenshotOnFailure is on; no capture is made
\* with the option off, by a call that resolved, or before the call gives up;
\* and the call rejects with the error of its last attempt whether or not the
\* capture succeeded.
C17_OneScreenshotOnGiveUp ==
    \A n \in 1..Len(navs) :
        LET c == navs[n]
        IN  /\ Cardinality(ShotsOf(n)) <= 1
            /\ (c.pc = "rejected" /\ options.screenshotOnFailure)
               => Cardinality(ShotsOf(n)) = 1
            /\ (~options.screenshotOnFailure \/ c.pc # "rejected")
               => ShotsOf(n) = {}
            /\ c.pc = "rejected"
               => (/\ c.err.kind # "none"
                   /\ c.err = c.lastError
                   /\ calls[c.call].pc = "rejected" => c.err = calls[c.call].err)

\* With the option on and two retries used up, the capture itself failed and
\* the call was rejected with the StateValidationError of its attempts.
C17_Witness ==
    \E n \in 1..Len(navs) :
        /\ options.screenshotOnFailure
        /\ navs[n].pc = "rejected"
        /\ navs[n].retries = 2
        /\ navs[n].attempt = 2
        /\ navs[n].err.kind = "Validation"
        /\ \E s \in ShotsOf(n) : ~screenshots[s].ok

----------------------------------------------------------------------------
(* Properties of the errors raised *)

\* The operation rejected with a StateValidationError.
FailedValidation(c) == c.pc = "rejected" /\ c.err.kind = "Validation"

\* C18: with screenshotOnFailure on, a screenshot has been captured whenever
\* expectState, validateCurrentState, dispatch or navigateAndValidate has
\* rejected with a StateValidationError.
C18_ValidationFailureCapturesScreenshot ==
    options.screenshotOnFailure =>
        /\ \A k \in 1..Len(ecalls) : FailedValidation(ecalls[k]) => screenshots # <<>>
        /\ \A j \in 1..Len(vcalls) : FailedValidation(vcalls[j]) => screenshots # <<>>
        /\ \A i \in DirectCalls : FailedValidation(calls[i]) => screenshots # <<>>
        /\ \A n \in 1..Len(navs) : FailedValidation(navs[n]) => ShotsOf(n) # {}

\* The names of the context fields an error carries.
ErrorCarries(e) ==
    DOMAIN e \cup (IF "details" \in DOMAIN e THEN DOMAIN e.details ELSE {})

CarriesDiagnosis(c) ==
    c.pc = "rejected"
    => {"expectedState", "currentState", "currentUrl"} \subseteq ErrorCarries(c.err)

\* C19: every error with which dispatch, validateCurrentState, expectState,
\* gotoState or syncStateFromPage has rejected carries the expected state,
\* the observed current state and the page's current URL.
C19_ErrorsCarryDiagnosis ==
    /\ \A i \in DirectCalls : CarriesDiagnosis(calls[i])
    /\ \A j \in 1..Len(vcalls) : CarriesDiagnosis(vcalls[j])
    /\ \A k \in 1..Len(ecalls) : CarriesDiagnosis(ecalls[k])
    /\ \A g \in 1..Len(gcalls) : CarriesDiagnosis(gcalls[g])
    /\ \A s \in 1..Len(scalls) : CarriesDiagnosis(scalls[s])

----------------------------------------------------------------------------
(* Properties of syncStateFromPage *)

\* The place of a registered key in registration order.
RegIndex(key) == CHOOSE n \in 1..Len(factory) : factory[n].key = key

\* Key a is probed before key b: it is deeper, or as deep and registered
\* earlier.
ProbedBefore(a, b) ==
    \/ Len(a) > Len(b)
    \/ (Len(a) = Len(b) /\ RegIndex(a) < RegIndex(b))

\* The candidates tried by probe c: registered keys, deepest first and in
\* registration order within a depth, none skipped, none after a success.
ProbeInOrder(c) ==
    /\ \A m \in 1..Len(c.tried) : FactoryClass(factory, c.tried[m].key) # ""
    /\ \A a, b \in 1..Len(c.tried) :
          a < b => ProbedBefore(c.tried[a].key, c.tried[b].key)
    /\ \A m \in 1..Len(c.tried), r \in 1..Len(factory) :
          ProbedBefore(factory[r].key, c.tried[m].key)
          => \E a \in 1..(m - 1) : c.tried[a].key = factory[r].key
    /\ \A m \in 1..Len(c.tried) :
          c.tried[m].ok => (m = Len(c.tried) /\ c.matched = c.tried[m].key)
    /\ c.matched # <<>> => (c.tried # <<>> /\ c.tried[Len(c.tried)].ok)
    /\ (c.pc = "rejected" /\ c.err.kind = "NoMatch")
          => (/\ Len(c.tried) = Len(factory)
              /\ \A m \in 1..Len(c.tried) : ~c.tried[m].ok)

\* C20: syncStateFromPage tries the registered keys by decreasing depth, keys
\* of equal depth in registration order, calling validateState on each; the
\* first candidate that validates is the detected state and no later one is
\* tried; when none validates, the error raised carries the page's URL.
C20_ProbeDeepestFirst ==
    [][ \A s \in 1..Len(scalls') :
            LET d == scalls'[s]
            IN  /\ ProbeInOrder(d)
                /\ (s <= Len(scalls) /\ Len(d.tried) > Len(scalls[s].tried))
                   => d.tried[Len(d.tried)].ok =
                        ValidatePasses(d.tried[Len(d.tried)].key)
                /\ (s <= Len(scalls) /\ scalls[s].pc = "probing"
                      /\ d.pc = "rejected" /\ d.err.kind = "NoMatch")
                   => d.err.currentUrl = url ]_vars

\* On the home page the three two-segment keys were tried and failed in
\* registration order, then 'home' validated: it is the detected state, and
\* 'docs' and 'api' were not tried.
C20_Witness ==
    \E s \in 1..Len(scalls) :
        /\ scalls[s].pc = "resolved"
        /\ scalls[s].matched = <<"home">>
        /\ [m \in 1..Len(scalls[s].tried) |-> scalls[s].tried[m].key] =
              << <<"docs", "overview">>, <<"docs", "gettingStarted">>,
                 <<"docs", "api">>, <<"home">> >>
        /\ \A m \in 1..3 : ~scalls[s].tried[m].ok

\* The StateValue a dotted key stands for: 'api' for the key api,
\* {docs: 'overview'} for the key docs.overview.
RECURSIVE KeyStateValue(_)
KeyStateValue(key) ==
    IF Len(key) = 1 THEN Str(key[1])
    ELSE Obj(Head(key), KeyStateValue(Tail(key)))

\* The syncStateFromPage calls that took a step.
SyncStepped ==
    {s \in 1..Len(scalls') : s > Len(scalls) \/ scalls'[s] # scalls[s]}

PageInSync ==
    /\ ~disposed
    /\ LET r == getActiveStateChain(value, factory, disposed, 0, constructed)
       IN  /\ r.ok
           /\ \A n \in 1..Len(r.chain) : ValidatePasses(r.chain[n])

\* C22: a syncStateFromPage call that settles while the page passes the
\* validation of the machine's whole chain, no dispatch being in progress,
\* resolves.
C22_InSyncPageSyncs ==
    [][ \A s \in SyncStepped :
            (/\ Settled(scalls'[s].pc)
             /\ PageInSync
             /\ \A i \in 1..Len(calls) : Settled(calls[i].pc))
            => scalls'[s].pc = "resolved" ]_vars

----------------------------------------------------------------------------
(* Properties of gotoState *)

\* The gotoState calls that took a step.
GotoStepped ==
    {g \in 1..Len(gcalls') : g > Len(gcalls) \/ gcalls'[g] # gcalls[g]}

\* What a gotoState call on a live executor does up to goto(): it fails when
\* the target's leaf key is unregistered or its class has no goto(), and
\* otherwise awaits the goto() of an object of the leaf key's class.
GotoStartsAtLeaf(d) ==
    LET leaf == flattenStateValue(d.target)
        class == FactoryClass(factory, leaf)
    IN  IF class = ""
        THEN d.pc = "rejected" /\ d.err.kind = "Unregistered" /\ d.err.key = leaf
        ELSE IF ClassGoto(class) = ""
             THEN d.pc = "rejected" /\ d.err.kind = "NoGoto" /\ d.err.key = leaf
             ELSE d.pc = "inGoto" /\ d.key = leaf

\* C23: a step of gotoState sends no event and leaves the machine's value and
\* the dispatch queue as they were, also when the target is not the current
\* state; the call fails when the target's leaf key is unregistered or its
\* object has no goto(), and otherwise calls goto() on an object of the leaf
\* key, the page ending where that goto() leads.
C23_GotoNeverMovesMachine ==
    [][ \A g \in GotoStepped :
            LET d == gcalls'[g]
            IN  /\ value' = value
                /\ calls' = calls
                /\ dispatchQueue' = dispatchQueue
                /\ handlerLog' = handlerLog
                /\ (g > Len(gcalls) /\ ~disposed) => GotoStartsAtLeaf(d)
                /\ (g <= Len(gcalls) /\ d.pc = "resolved")
                   => url' = ClassGoto(FactoryClass(factory,
                                                    flattenStateValue(d.target)))
                /\ (g <= Len(gcalls) /\ d.pc = "rejected") => url' = url ]_vars

\* gotoState('api') resolved on an executor whose machine is in 'home': the
\* page is the API page and the machine is still in 'home'.
C23_Witness ==
    \E g \in 1..Len(gcalls) :
        /\ gcalls[g].pc = "resolved"
        /\ gcalls[g].target = Api
        /\ url = "api"
        /\ value = Home

----------------------------------------------------------------------------
(* Properties of the functions called on their own *)

\* The nesting depth of a StateValue: 1 for a string.
RECURSIVE Depth(_)
Depth(v) == IF IsString(v) THEN 1 ELSE 1 + Depth(v.c)

\* C24: resolveStatePaths(v) is [s] for the string s; for a nested value it
\* has one key per level, root first: the first key is the root segment, each
\* later key is the key before it plus one segment, and the last key is the
\* dotted key of v itself.
C24_PathsRootToLeaf ==
    applied.fn = "resolveStatePaths" =>
        LET v == applied.arg
            r == applied.result
        IN  /\ Len(r) = Depth(v)
            /\ IsString(v) => r = << <<v.k>> >>
            /\ r[1] = <<v.k>>
            /\ \A n \in 2..Len(r) :
                  /\ Len(r[n]) = n
                  /\ SubSeq(r[n], 1, n - 1) = r[n - 1]
            /\ KeyStateValue(r[Len(r)]) = v

\* resolveStatePaths({a: {b: 'c'}}) gave ['a', 'a.b', 'a.b.c'].
C24_Witness ==
    /\ applied.fn = "resolveStatePaths"
    /\ applied.arg = Obj("a", Obj("b", Str("c")))
    /\ applied.result = << <<"a">>, <<"a", "b">>, <<"a", "b", "c">> >>

----------------------------------------------------------------------------
(* Properties of the factory *)

\* A key that has an entry in the registry.
Registered(key) == \E r \in 1..Len(factory) : factory[r].key = key

\* The levels of the machine's current path whose key is not registered.
MissingLevels ==
    {n \in 1..Len(resolveStatePaths(value)) : ~Registered(resolveStatePaths(value)[n])}

\* The objects a call has obtained from the factory are of registered keys.
ObjectsRegistered(c) ==
    /\ \A n \in 1..Len(c.vpaths) : Registered(c.vpaths[n])
    /\ \A n \in 1..Len(c.vlog) : Registered(c.vlog[n].key)

\* C25: the factory hands out objects of registered keys only, and a
\* validateCurrentState() called while a key of the machine's path, parent or
\* leaf, is unregistered fails with the factory's error naming the first such
\* key, no validateState() having run.
C25_UnregisteredKeyThrows ==
    [][ /\ \A i \in 1..Len(calls') :
              /\ ObjectsRegistered(calls'[i])
              /\ \A n \in 1..Len(calls'[i].injected) :
                    Registered(calls'[i].injected[n])
        /\ \A j \in 1..Len(vcalls') :
              /\ ObjectsRegistered(vcalls'[j])
              /\ (j > Len(vcalls) /\ ~disposed /\ MissingLevels # {})
                 => LET d == vcalls'[j]
                        first == CHOOSE n \in MissingLevels :
                                    \A m \in MissingLevels : n <= m
                    IN  /\ d.pc = "rejected"
                        /\ d.err.kind = "Unregistered"
                        /\ d.err.key = resolveStatePaths(value)[first]
                        /\ d.vlog = <<>> ]_vars

\* With 'docs' registered and 'docs.overview' not, the machine is in
\* docs.overview and a validateCurrentState() failed with the factory's error
\* naming 'docs.overview'.
C25_Witness ==
    /\ factory = NoLeafRegistry
    /\ value = DocsOverview
    /\ \E j \in 1..Len(vcalls) :
          /\ vcalls[j].pc = "rejected"
          /\ vcalls[j].err = Err("Unregistered", j, <<"docs", "overview">>)

\* C27: when createActor and interpret both throw, the constructor throws an
\* error whose message holds the messages of both failures.
C27_BothFailuresReported ==
    (/\ applied.fn = "constructor"
     /\ applied.createActor.kind = "throws"
     /\ applied.interpret.kind = "throws")
    => /\ ~applied.result.ok
       /\ Includes(applied.result.message, applied.createActor.message)
       /\ Includes(applied.result.message, applied.interpret.message)

----------------------------------------------------------------------------
(* Properties of the two runtime shapes *)

\* What a caller observes of the start of a call's unit of work: the level of
\* the handler invoked, how far the call got, its error, and the machine's
\* value.
ObservedStart(r) ==
    [level |-> r.level, pc |-> r.call.pc, err |-> r.call.err.kind,
     value |-> r.value]

\* C28, for the first dispatch on a fresh executor: the unit of work does under
\* either runtime shape what it does under the other, from the same machine
\* state, registry and page: the same handler is invoked, the call gets as
\* far with the same error if any, and the machine's value is the same.
C28_ShapesBehaveAlike ==
    [][ (/\ Len(calls) >= 1
         /\ calls[1].pc = "awaitPrev"
         /\ calls'[1].pc # "awaitPrev"
         /\ ~disposed)
        => LET c == [calls[1] EXCEPT !.startValue = value]
           IN  ObservedStart(ExecuteStart(TRUE, c, 1)) =
               ObservedStart(ExecuteStart(FALSE, c, 1)) ]_vars

----------------------------------------------------------------------------
(* Properties of the state getters *)

\* The raw StateValue as JavaScript sees it: a string or an object.
RawStateValue(v) == IF IsString(v) THEN JsString(<<v.k>>) ELSE JsObject(v)

\* The dotted leaf key of a StateValue.
LeafKey(v) == resolveStatePaths(v)[Len(resolveStatePaths(v))]

\* C29: read on a live executor, currentStateString is the dotted leaf key of
\* the machine's value; currentStateValue is that same string under the
\* format 'string' and the raw StateValue under 'object' and 'auto'.
C29_GettersFormatStateValue ==
    [][ (Len(reads') > Len(reads) /\ ~disposed)
        => LET r == reads'[Len(reads')]
           IN  /\ r.got.ok
               /\ r.getter = "currentStateString"
                  => r.got.result = JsString(LeafKey(value))
               /\ r.getter = "currentStateValue"
                  => r.got.result =
                       IF options.stateValueFormat = "string"
                       THEN JsString(LeafKey(value))
                       ELSE RawStateValue(value) ]_vars

\* With the format 'string' and the machine in {docs: 'overview'},
\* currentStateValue returned 'docs.overview'.
C29_Witness ==
    /\ options.stateValueFormat = "string"
    /\ value = DocsOverview
    /\ \E r \in 1..Len(reads) :
          /\ reads[r].getter = "currentStateValue"
          /\ reads[r].got.ok
          /\ reads[r].got.result = JsString(<<"docs", "overview">>)

----------------------------------------------------------------------------
(* Properties of expectState *)

\* The expectState calls that settled in the step.
ExpectSettled ==
    {k \in 1..Len(ecalls') :
        /\ Settled(ecalls'[k].pc)
        /\ (k > Len(ecalls) \/ ~Settled(ecalls[k].pc))}

\* C30: an expectState call on a live executor resolves only when every
\* validateState() of its chain has passed and, for a call without the strict
\* option, the machine's flattened value is the flattened expected state at
\* that moment; when it fails, it fails with a StateValidationError whose
\* expectedState is the flattened expected state and whose currentState is
\* the machine's flattened value.
C30_ExpectStateChecksStateAndPage ==
    [][ \A k \in ExpectSettled :
            LET d == ecalls'[k]
            IN  ~disposed =>
                /\ d.pc = "resolved"
                   => /\ d.vlog # <<>>
                      /\ \A n \in 1..Len(d.vlog) : d.vlog[n].ok
                      /\ ~d.strict => flattenStateValue(value) = d.expected
                /\ d.pc = "rejected"
                   => /\ d.err.kind = "Validation"
                      /\ d.err.details.expectedState = d.expected
                      /\ d.err.details.currentState = flattenStateValue(value) ]_vars

----------------------------------------------------------------------------
(* Properties of the objects a chain resolution constructs *)

Refs(objs) == {objs[n].ref : n \in 1..Len(objs)}

\* The chains the calls hold: a dispatch's handler chain, and the chain of the
\* latest validation of every call that validates.
ChainsHeld ==
    [i \in 1..Len(calls) |-> calls[i].objs] \o
    [i \in 1..Len(calls) |-> calls[i].vobjs] \o
    [j \in 1..Len(vcalls) |-> vcalls[j].vobjs] \o
    [k \in 1..Len(ecalls) |-> ecalls[k].vobjs] \o
    [n \in 1..Len(navs) |-> navs[n].vobjs]

\* objs are objects constructed in the step, one per key of the chain of
\* StateValue v, each holding the machine's context.
FreshChain(objs, v) ==
    LET stateKeys == resolveStatePaths(v)
    IN  /\ Len(objs) = Len(stateKeys)
        /\ \A n \in 1..Len(objs) :
              /\ objs[n].key = stateKeys[n]
              /\ objs[n].class = FactoryClass(factory, stateKeys[n])
              /\ objs[n].context = machineContext
              /\ objs[n].ref \in (constructed + 1)..constructed'
        /\ Cardinality(Refs(objs)) = Len(objs)

\* The dispatch calls whose unit of work resolved its chain in the step, the
\* dispatch calls whose post-commit validation began in it, and the direct
\* validateCurrentState calls made in it.
ChainResolvedBy ==
    {i \in 1..Len(calls) : calls[i].injected = <<>> /\ calls'[i].injected # <<>>}
ValidationBegunBy ==
    {i \in 1..Len(calls) : calls[i].pc # "validating" /\ calls'[i].pc = "validating"}
ValidateCallsMade ==
    {j \in 1..Len(vcalls') : j > Len(vcalls) /\ vcalls'[j].pc = "validating"}

\* C26: every chain resolution (the one of a dispatch's unit of work, the one
\* of its post-commit validation, the one of a validateCurrentState call)
\* constructs new objects, one per key of the current state path and each
\* with the machine's context, and no object belongs to two resolutions.
C26_ChainObjectsAreFresh ==
    /\ [](\A a, b \in 1..Len(ChainsHeld) :
            a # b => Refs(ChainsHeld[a]) \cap Refs(ChainsHeld[b]) = {})
    /\ [][ /\ \A i \in ChainResolvedBy : FreshChain(calls'[i].objs, value)
           /\ \A i \in ValidationBegunBy : FreshChain(calls'[i].vobjs, value')
           /\ \A j \in ValidateCallsMade : FreshChain(vcalls'[j].vobjs, value) ]_vars

\* A dispatch whose unit of work and post-commit validation have resolved
\* their chains, the second having two keys, next to a validateCurrentState
\* call that has resolved its own.
C26_Witness ==
    \E i \in 1..Len(calls), j \in 1..Len(vcalls) :
        /\ Len(calls[i].objs) = 1
        /\ Len(calls[i].vobjs) = 2
        /\ Len(vcalls[j].vobjs) >= 1

----------------------------------------------------------------------------
(* Properties of validateCurrentState next to dispatch *)

\* The dispatch calls whose unit of work is in progress.
DispatchInProgress ==
    {i \in 1..Len(calls) : calls[i].pc \in {"inHandler", "validating"}}

\* Every key of the chain of the machine's value has a class.
ChainRegistered ==
    \A n \in 1..Len(resolveStatePaths(value)) :
        FactoryClass(factory, resolveStatePaths(value)[n]) # ""

\* C31: validateCurrentState does not wait for the dispatch queue: while a
\* dispatch's unit of work is in progress a call can be made, and a call made
\* on a live executor starts at once on the chain of the machine's value of
\* that moment.
C31_ValidateNotQueued ==
    /\ [](DispatchInProgress # {} /\ Len(vcalls) < MaxValidates
            => ENABLED ValidateCurrentState)
    /\ [][ \A j \in ValidateCallsMade :
              ~disposed /\ ChainRegistered
                => /\ vcalls'[j].vpaths = resolveStatePaths(value)
                   /\ vcalls'[j].vidx = 1 ]_vars

\* A validateCurrentState call validating the chain of the committed state
\* docs.overview while the dispatch that committed it is still in its
\* post-commit validation.
C31_Witness ==
    \E i \in 1..Len(calls), j \in 1..Len(vcalls) :
        /\ calls[i].pc = "validating"
        /\ calls[i].before = Str("home")
        /\ value = DocsOverview
        /\ vcalls[j].pc = "validating"
        /\ vcalls[j].vpaths = resolveStatePaths(DocsOverview)

----------------------------------------------------------------------------
(* Properties of the event payload *)

\* C32: once a dispatch has resolved its chain, every object of the chain
\* holds the payload passed to that dispatch call, and the handler invoked,
\* at whatever level, is called with that payload and reads it from its
\* object.
C32_PayloadOnEveryObject ==
    /\ \A i \in 1..Len(calls) :
          \A n \in 1..Len(calls[i].objs) :
              calls[i].objs[n].lastEventPayload = calls[i].payload
    /\ \A h \in 1..Len(handlerLog) :
          /\ handlerLog[h].payload = calls[handlerLog[h].call].payload
          /\ handlerLog[h].argument = calls[handlerLog[h].call].payload

\* A handler has run on a chain of two objects under a payload object.
C32_Witness ==
    \E h \in 1..Len(handlerLog) :
        /\ Len(calls[handlerLog[h].call].objs) = 2
        /\ handlerLog[h].payload = PayloadObject("", "getting-started")

----------------------------------------------------------------------------
(* Properties of a handler that throws *)

\* The dispatch calls whose handler threw in the step.
HandlerThrewIn ==
    {i \in 1..Len(calls) :
        /\ calls[i].pc = "inHandler"
        /\ calls'[i].err.kind = "HandlerThrew"}

\* C33: when the handler a dispatch awaits throws, the dispatch rejects with
\* the handler's error, the event is not sent (the machine's value stays) and
\* no validation is started, under either runtime shape.
C33_HandlerErrorStopsDispatch ==
    [][ \A i \in HandlerThrewIn :
            /\ calls'[i].pc = "rejected"
            /\ calls'[i].err = Err("HandlerThrew", i, <<>>)
            /\ value' = value
            /\ ~calls'[i].sent
            /\ calls'[i].vpaths = <<>>
            /\ calls'[i].vlog = <<>>
            /\ constructed' = constructed ]_vars

\* A dispatch whose handler threw on a state the event would have left.
C33_Witness ==
    \E i \in 1..Len(calls) :
        /\ calls[i].pc = "rejected"
        /\ calls[i].err = Err("HandlerThrew", i, <<>>)
        /\ calls[i].hlevel > 0
        /\ NextStateChanged(calls[i].before, calls[i].event)
        /\ value = calls[i].before

----------------------------------------------------------------------------
(* Progress of the dispatch queue *)

\* C34: every dispatch call submitted eventually settles, given that the
\* handlers and validateState() calls it awaits settle: no call stays pending
\* behind a predecessor that has settled.
C34_EveryDispatchSettles ==
    \A i \in 1..MaxCallsLive :
        (Len(calls) >= i) ~> (Len(calls) >= i /\ Settled(calls[i].pc))

\* A call that waited for its predecessor has settled behind it, the
\* predecessor having been rejected.
C34_Witness ==
    /\ Len(calls) >= 2
    /\ calls[2].prev = 1
    /\ calls[1].pc = "rejected"
    /\ Settled(calls[2].pc)

----------------------------------------------------------------------------
(* Properties of resolveStateValueFromKey *)

\* C35: for a dotted key of any depth, the StateValue resolveStateValueFromKey
\* builds is the one whose resolved path ends with the key.
C35_KeyRoundTrip ==
    applied.fn = "resolveStateValueFromKey" =>
        LET paths == resolveStatePaths(applied.result)
        IN  paths[Len(paths)] = applied.arg

----------------------------------------------------------------------------
(* Properties of dispatches overtaken by dispose *)

\* C36: once dispose() has returned, no handler is started, no send is made
\* on the runtime, and every dispatch call that settles (it was queued or
\* awaiting its handler when dispose() was called) is rejected.
C36_NothingRunsAfterDispose ==
    [][ disposed =>
          /\ handlerLog' = handlerLog
          /\ \A i \in 1..Len(calls) :
                /\ calls'[i].sent = calls[i].sent
                /\ ~Settled(calls[i].pc) /\ Settled(calls'[i].pc)
                     => calls'[i].pc = "rejected" ]_vars

----------------------------------------------------------------------------
(* Properties of the retries of navigateAndValidate *)

\* The dispatch made the machine take a transition.
Committed(c) == c.sent /\ NextStateChanged(c.before, c.sentType)

\* C37: within one navigateAndValidate call, no attempt that follows an
\* attempt whose dispatch committed the event sends the event again: the
\* event is committed at most once.
C37_EventCommittedOnce ==
    \A n \in 1..Len(navs) :
        LET att == navs[n].attempts
        IN  \A a, b \in 1..Len(att) :
                a < b /\ Committed(calls[att[a]]) => ~calls[att[b]].sent

----------------------------------------------------------------------------
(* Properties of concurrent navigateAndValidate calls *)

\* The navigateAndValidate calls whose validateCurrentState() starts or takes
\* a step in the step.
NavValidating ==
    {n \in 1..Len(navs) :
        /\ navs'[n] # navs[n]
        /\ \/ navs[n].pc = "dispatching" /\ calls[navs[n].call].pc = "resolved"
           \/ navs[n].pc = "validating"}

\* C38 as stated: the validation of a navigateAndValidate call runs on the
\* machine state its own dispatch produced, and no later call's dispatch has
\* started its unit of work while it runs.
C38_ValidationBeforeLaterDispatch ==
    [][ \A n \in NavValidating :
            /\ value = calls[navs[n].call].endValue
            /\ \A i \in 1..Len(calls) : i > navs[n].call => ~calls[i].started ]_vars

\* The navigateAndValidate calls that resume after their dispatch in the step.
NavResumed ==
    {n \in 1..Len(navs) : navs[n].pc = "dispatching" /\ navs'[n].pc # "dispatching"}

\* C38, amended: the validation of a navigateAndValidate call starts only
\* once the call's own dispatch has resolved, on the chain of the machine's
\* value of that moment, whether or not a later call's dispatch has started;
\* a call whose dispatch was rejected validates nothing.
C38_ValidationAfterOwnDispatch ==
    /\ [](\A n \in 1..Len(navs) :
            navs[n].pc = "validating" => calls[navs[n].call].pc = "resolved")
    /\ [][ \A n \in NavResumed :
              LET d == calls[navs[n].call]
              IN  /\ Settled(d.pc)
                  /\ d.pc = "rejected" =>
                       /\ navs'[n].pc = "rejected"
                       /\ navs'[n].err = d.err
                       /\ navs'[n].vlog = <<>>
                  /\ d.pc = "resolved" /\ ~disposed /\ ChainRegistered =>
                       /\ navs'[n].pc = "validating"
                       /\ navs'[n].vpaths = resolveStatePaths(value)
                       /\ navs'[n].vobjs # <<>> ]_vars

\* A call validates after its own dispatch while the dispatch of the call
\* issued after it has started its unit of work and committed its event.
C38_Witness ==
    \E n \in 1..Len(navs), i \in 1..Len(calls) :
        /\ navs[n].pc = "validating"
        /\ i > navs[n].call
        /\ calls[i].started
        /\ calls[i].sent
        /\ value # calls[navs[n].call].endValue

----------------------------------------------------------------------------
(* Properties of a failed post-commit validation *)

\* The dispatch calls one of whose post-commit validateState() calls failed in
\* the step.
PostCommitFailedIn ==
    {i \in 1..Len(calls) :
        /\ calls[i].pc = "validating"
        /\ Len(calls'[i].vlog) > Len(calls[i].vlog)
        /\ ~calls'[i].vlog[Len(calls'[i].vlog)].ok}

\* C39: when the validation that follows the commit fails, the dispatch
\* rejects and the machine keeps the state the event led to: the value read
\* afterwards is the event's target, not the state before the dispatch.
C39_NoRollback ==
    [][ \A i \in PostCommitFailedIn :
            LET target == MachineTransition(calls[i].before, calls[i].sentType)
            IN  /\ calls'[i].pc = "rejected"
                /\ calls'[i].sent
                /\ value' = target
                /\ value' # calls[i].before
                /\ FormatStateValue(value', options.stateValueFormat) =
                     FormatStateValue(target, options.stateValueFormat) ]_vars

\* A dispatch rejected by its post-commit validation, the machine being in
\* docs.overview, the target of the event sent from 'home'.
C39_Witness ==
    \E i \in 1..Len(calls) :
        /\ calls[i].pc = "rejected"
        /\ calls[i].err.kind = "Validation"
        /\ calls[i].err.origin = i
        /\ calls[i].before = Home
        /\ calls[i].event = "NAVIGATE_TO_DOCS"
        /\ value = DocsOverview

----------------------------------------------------------------------------
(* Properties of the event sent to the runtime *)

\* C40: the event a dispatch sends to the runtime has the type passed to
\* dispatch, whatever the payload and under either runtime shape.
C40_SentTypeIsEvent ==
    \A i \in 1..Len(calls) :
        calls[i].sent => calls[i].sentType = calls[i].event

====
